---- MODULE Spec2Model ----
(***************************************************************************)
(* Persistence layer of the AI-governance backend:                         *)
(*   JSONStorage   (backend/app/storage/json_storage.py)   one JSON array  *)
(*                 per collection file, replaced by temp-file + rename;    *)
(*   NDJSONStorage (backend/app/storage/ndjson_storage.py) one JSON object *)
(*                 per line, appended in place, rewritten in place by      *)
(*                 delete_record.                                          *)
(*   RiskScoringService (backend/app/services/risk_scoring.py) reads the   *)
(*                 models collection and four evaluation logs and computes *)
(*                 a risk assessment from them.                            *)
(* Every storage call is a sequence of file-system steps (exists, open,    *)
(* read, write, rename).  Several processes run calls against the same     *)
(* two files; a process may die between any two steps.                     *)
(***************************************************************************)
EXTENDS Integers, Sequences, FiniteSets, TLC

(* ------------------------------ bounds -------------------------------- *)
NProcs == 2      \* processes calling the storage layer
MaxId == 2       \* identifier values are 1..MaxId
MaxVal == 2      \* values of the other attributes are 1..MaxVal
MaxCalls == 2    \* storage calls started in one behaviour
MaxLen == 2      \* records a file starts with
MaxLog == 3      \* records a log starts with when it is queried
MaxReads == 3    \* calls started in one behaviour of appenders and readers
MaxLines == 3    \* lines a damaged log starts with
MaxText == 4     \* tokens a damaged collection file starts with
MaxScores == 1   \* risk scores computed in one behaviour
MaxMutations == 1 \* mutating calls made in one behaviour on a file of any text

Procs == 1..NProcs
Ids == 1..MaxId
Vals == 1..MaxVal
InoIds == 1..(NProcs + 1)
NoIno == 0

(* ------------------------------ records ------------------------------- *)
\* A record is a dict: a function from attribute names to values.
\* record.get(k) == v, for a v that is never None
Matches(r, k, v) == k \in DOMAIN r /\ r[k] = v

\* dict.update(u)
Merge(r, u) == [k \in (DOMAIN r) \cup (DOMAIN u) |-> IF k \in DOMAIN u THEN u[k] ELSE r[k]]

EmptyDict == [k \in {} |-> 0]
DocRecords == {[id |-> i, a |-> v] : i \in Ids, v \in Vals}
DocUpdates == {[a |-> v] : v \in Vals} \cup {EmptyDict}
LogRecords == {[model_id |-> m, timestamp |-> t] : m \in Ids, t \in Vals}
\* evaluation events: two of them can have the same model and timestamp
EvalRecords == {[model_id |-> m, timestamp |-> t, status |-> s] : m \in Ids, t \in Vals, s \in Vals}

(* --------------------------- file contents ---------------------------- *)
\* A file holds a sequence of tokens; a write may lay down any prefix of
\* what is to be written, so a text is several tokens long.
LB == [t |-> "["]
RB == [t |-> "]"]
Hole == [t |-> "nul"]
RecTok(r) == [t |-> "rec", r |-> r]
ObjL(r) == [t |-> "{", r |-> r]
ObjR(r) == [t |-> "}", r |-> r]
NL == [t |-> "nl"]

\* json.dump(data, f, indent=2)
Serialize(data) == <<LB>> \o [i \in 1..Len(data) |-> RecTok(data[i])] \o <<RB>>

IsArrayText(c) ==
    /\ Len(c) >= 2
    /\ c[1] = LB
    /\ c[Len(c)] = RB
    /\ \A i \in 2..(Len(c) - 1) : c[i].t = "rec"

\* load_json as it would be if it salvaged the records of a text that is
\* not an array
ParseArraySalvage(c) ==
    LET recs == SelectSeq(c, LAMBDA x : x.t = "rec")
    IN [i \in 1..Len(recs) |-> recs[i].r]

\* json.load(f) followed by the isinstance test: anything but a complete
\* array text gives []
ParseArray(c) ==
    IF IsArrayText(c) THEN [i \in 1..(Len(c) - 2) |-> c[i + 1].r] ELSE <<>>

\* json.dumps(record) + '\n'
Line(r) == <<ObjL(r), ObjR(r), NL>>

RECURSIVE Lines(_)
Lines(recs) == IF recs = <<>> THEN <<>> ELSE Line(Head(recs)) \o Lines(Tail(recs))

\* the write of `text` at offset `off` of a file holding c
Overwrite(c, off, text) ==
    LET n == IF Len(c) > off + Len(text) THEN Len(c) ELSE off + Len(text)
    IN [i \in 1..n |-> IF i > off /\ i <= off + Len(text) THEN text[i - off]
                       ELSE IF i <= Len(c) THEN c[i] ELSE Hole]

IsPrefix(s, t) == Len(s) <= Len(t) /\ SubSeq(t, 1, Len(s)) = s

(* ------------------------------- state -------------------------------- *)
VARIABLES
    path,     \* inode the collection file's name points to, NoIno when absent
    inodes,   \* contents of each inode
    logf,     \* the log file: whether it exists, and its contents
    pc,       \* each process's place in its call
    op,       \* each process's call and its arguments
    data,     \* each process's in-memory list
    h,        \* inode held open by each process
    buf,      \* text each process has still to write
    ret,      \* what each process's call returned
    pre,      \* contents of the file when the process's call started
    saved,    \* collections save_json has installed since the process's call started
    lazy,     \* whether ensure_file_exists has created or emptied the collection file
    ncalls,   \* calls started so far
    evlogs    \* the evaluation logs: for each, whether it exists, and its contents

vars == <<path, inodes, logf, pc, op, data, h, buf, ret, pre, saved, lazy, ncalls, evlogs>>

NoCall == [name |-> "none"]
NoRet == [kind |-> "none"]
RetBool(b) == [kind |-> "bool", b |-> b]
RetList(l) == [kind |-> "list", l |-> l]
RetRec(r) == [kind |-> "record", r |-> r]
RetNone == [kind |-> "None"]
RetHTTP(c) == [kind |-> "HTTPException", code |-> c]
RetInt(n) == [kind |-> "int", n |-> n]

\* the logs RiskScoringService reads, in the order it reads them, and the
\* one its results are appended to by the route that stores them
ScoreLogs == <<"control_evaluations", "bias", "explainability", "drift">>
EvalLogs == {"control_evaluations", "bias", "explainability", "drift", "risk_assessments"}
NoEvalLogs == [f \in EvalLogs |-> [exists |-> FALSE, text |-> <<>>]]

\* the collection file as a reader opening it now would find it
FileExists == path # NoIno
FileText == IF path = NoIno THEN <<>> ELSE inodes[path]
FileRecords == ParseArray(FileText)
FileState == [exists |-> FileExists, text |-> FileText]
LogState == logf

\* inodes that a name or an open handle still refers to keep their contents
Referenced(i, pth, hs) == i = pth \/ \E q \in Procs : hs[q] = i
Collect(ino, pth, hs) == [i \in InoIds |-> IF Referenced(i, pth, hs) THEN ino[i] ELSE <<>>]
FreeIno == CHOOSE i \in InoIds : ~Referenced(i, path, h) /\ \A j \in InoIds : j < i => Referenced(j, path, h)

(* ------------------------ JSONStorage, in memory ---------------------- *)
\* find_by_id: the first record whose id_field equals id_value
find_index(d, id_field, id_value) ==
    IF \E i \in 1..Len(d) : Matches(d[i], id_field, id_value)
    THEN CHOOSE i \in 1..Len(d) :
            /\ Matches(d[i], id_field, id_value)
            /\ \A j \in 1..(i - 1) : ~Matches(d[j], id_field, id_value)
    ELSE 0

find_by_id(d, id_field, id_value) ==
    IF find_index(d, id_field, id_value) = 0 THEN RetNone
    ELSE RetRec(d[find_index(d, id_field, id_value)])

exists(d, id_field, id_value) == find_by_id(d, id_field, id_value) # RetNone

\* create: data.append(record)
create(d, record) == Append(d, record)

\* update_by_id as it would be with data[i] = updates
update_by_id_replace(d, id_field, id_value, updates) ==
    [d EXCEPT ![find_index(d, id_field, id_value)] = updates]

\* update_by_id: data[i].update(updates) for the first match
update_by_id(d, id_field, id_value, updates) ==
    [d EXCEPT ![find_index(d, id_field, id_value)] = Merge(@, updates)]

\* delete_by_id: [r for r in data if r.get(id_field) != id_value]
RECURSIVE delete_by_id(_, _, _)
delete_by_id(d, id_field, id_value) ==
    IF d = <<>> THEN <<>>
    ELSE IF Matches(Head(d), id_field, id_value)
         THEN delete_by_id(Tail(d), id_field, id_value)
         ELSE <<Head(d)>> \o delete_by_id(Tail(d), id_field, id_value)

(* ------------------------------ calls --------------------------------- *)
IdField == "id"

DocCalls ==
    {[name |-> "load_json"]}
    \cup {[name |-> n, id_value |-> i] : n \in {"find_by_id", "exists", "delete_by_id"}, i \in Ids}
    \cup {[name |-> "create", record |-> r] : r \in DocRecords}
    \cup {[name |-> "update_by_id", id_value |-> i, updates |-> u] : i \in Ids, u \in DocUpdates}

RouteCalls ==
    {[name |-> "create_model", record |-> r, stage |-> "exists"] : r \in DocRecords}

\* the storage call a process is in: a route runs several, one after another
InCreate(p) == op[p].name = "create" \/ (op[p].name = "create_model" /\ op[p].stage = "create")

UniqueIds(d) == \A i, j \in 1..Len(d) : i # j => ~(IdField \in DOMAIN d[i] /\ Matches(d[j], IdField, d[i][IdField]))

RECURSIVE SeqsUpTo(_, _)
SeqsUpTo(S, n) ==
    IF n = 0 THEN {<<>>}
    ELSE SeqsUpTo(S, n - 1) \cup {Append(q, x) : q \in {r \in SeqsUpTo(S, n - 1) : Len(r) = n - 1}, x \in S}

\* collections a file can start with: what earlier, serial route calls leave
InitCollections == {d \in SeqsUpTo(DocRecords, MaxLen) : UniqueIds(d)}

InitProcs ==
    /\ pc = [p \in Procs |-> "idle"]
    /\ op = [p \in Procs |-> NoCall]
    /\ data = [p \in Procs |-> <<>>]
    /\ h = [p \in Procs |-> NoIno]
    /\ buf = [p \in Procs |-> <<>>]
    /\ ret = [p \in Procs |-> NoRet]
    /\ pre = [p \in Procs |-> [exists |-> FALSE, text |-> <<>>]]
    /\ saved = [p \in Procs |-> {}]
    /\ lazy = FALSE
    /\ ncalls = 0

InitDocFile ==
    \/ /\ path = NoIno
       /\ inodes = [i \in InoIds |-> <<>>]
    \/ \E d \in InitCollections :
          /\ path = 1
          /\ inodes = [i \in InoIds |-> IF i = 1 THEN Serialize(d) ELSE <<>>]

(* ------------------------- JSONStorage, steps ------------------------- *)
StartDoc(p) ==
    /\ pc[p] = "idle"
    /\ ncalls < MaxCalls
    /\ \E c \in DocCalls \cup RouteCalls :
          op' = [op EXCEPT ![p] = c]
    /\ pc' = [pc EXCEPT ![p] = "ensure"]
    /\ pre' = [pre EXCEPT ![p] = FileState]
    /\ data' = [data EXCEPT ![p] = <<>>]
    /\ ret' = [ret EXCEPT ![p] = NoRet]
    /\ ncalls' = ncalls + 1
    /\ UNCHANGED <<evlogs, path, inodes, logf, h, buf, saved, lazy>>

\* updates that change an attribute, the identifier itself, or add an
\* attribute, and the empty one
SeqUpdates == DocUpdates \cup {[id |-> i] : i \in Ids} \cup {[b |-> v] : v \in Vals}
SeqCalls ==
    DocCalls \cup {[name |-> "update_by_id", id_value |-> i, updates |-> u] : i \in Ids, u \in SeqUpdates}

\* a caller that makes a call only when every earlier one has returned
Sequential == \A q \in Procs : pc[q] \in {"idle", "done"}

StartSeq(p) ==
    /\ Sequential
    /\ pc[p] = "idle"
    /\ ncalls < MaxCalls
    /\ \E c \in SeqCalls :
          op' = [op EXCEPT ![p] = c]
    /\ pc' = [pc EXCEPT ![p] = "ensure"]
    /\ pre' = [pre EXCEPT ![p] = FileState]
    /\ data' = [data EXCEPT ![p] = <<>>]
    /\ ret' = [ret EXCEPT ![p] = NoRet]
    /\ ncalls' = ncalls + 1
    /\ UNCHANGED <<evlogs, path, inodes, logf, h, buf, saved, lazy>>

\* ensure_file_exists: if not path.exists()
EnsureCheck(p) ==
    /\ pc[p] = "ensure"
    /\ pc' = [pc EXCEPT ![p] = IF path = NoIno THEN "ens_open" ELSE "open_r"]
    /\ UNCHANGED <<evlogs, path, inodes, logf, op, data, h, buf, ret, pre, ncalls, saved, lazy>>

\* ensure_file_exists: open(filepath, 'w') creates the file, or empties the
\* one that has appeared since the test
EnsureOpen(p) ==
    /\ pc[p] = "ens_open"
    /\ IF path = NoIno
       THEN /\ path' = FreeIno
            /\ inodes' = [inodes EXCEPT ![FreeIno] = <<>>]
            /\ h' = [h EXCEPT ![p] = FreeIno]
       ELSE /\ path' = path
            /\ inodes' = [inodes EXCEPT ![path] = <<>>]
            /\ h' = [h EXCEPT ![p] = path]
    /\ buf' = [buf EXCEPT ![p] = Serialize(<<>>)]
    /\ pc' = [pc EXCEPT ![p] = "ens_write"]
    /\ lazy' = TRUE
    /\ UNCHANGED <<evlogs, logf, op, data, ret, pre, ncalls, saved>>

\* ensure_file_exists: json.dump(default, f, indent=2), flushed as the file closes
EnsureWrite(p) ==
    /\ pc[p] = "ens_write"
    /\ h' = [h EXCEPT ![p] = NoIno]
    /\ inodes' = Collect([inodes EXCEPT ![h[p]] = Overwrite(@, 0, buf[p])], path, h')
    /\ buf' = [buf EXCEPT ![p] = <<>>]
    /\ pc' = [pc EXCEPT ![p] = "open_r"]
    /\ UNCHANGED <<evlogs, path, logf, op, data, ret, pre, ncalls, saved, lazy>>

\* load_json: open(filepath, 'r'); FileNotFoundError gives []
OpenRead(p) ==
    /\ pc[p] = "open_r"
    /\ IF path = NoIno
       THEN /\ pc' = [pc EXCEPT ![p] = "loaded"]
            /\ data' = [data EXCEPT ![p] = <<>>]
            /\ h' = h
       ELSE /\ pc' = [pc EXCEPT ![p] = "read"]
            /\ data' = data
            /\ h' = [h EXCEPT ![p] = path]
    /\ UNCHANGED <<evlogs, path, inodes, logf, op, buf, ret, pre, ncalls, saved, lazy>>

\* load_json as it would be without the except clause: a text that is not
\* an array ends the call with the error
ReadFileRaises(p) ==
    /\ pc[p] = "read"
    /\ data' = [data EXCEPT ![p] = ParseArray(inodes[h[p]])]
    /\ h' = [h EXCEPT ![p] = NoIno]
    /\ inodes' = Collect(inodes, path, h')
    /\ IF IsArrayText(inodes[h[p]])
       THEN /\ pc' = [pc EXCEPT ![p] = "loaded"]
            /\ ret' = ret
       ELSE /\ pc' = [pc EXCEPT ![p] = "done"]
            /\ ret' = [ret EXCEPT ![p] = [kind |-> "JSONDecodeError"]]
    /\ UNCHANGED <<evlogs, path, logf, op, buf, pre, ncalls, saved, lazy>>

\* load_json: json.load(f) on the file that was opened
ReadFile(p) ==
    /\ pc[p] = "read"
    /\ data' = [data EXCEPT ![p] = ParseArray(inodes[h[p]])]
    /\ h' = [h EXCEPT ![p] = NoIno]
    /\ inodes' = Collect(inodes, path, h')
    /\ pc' = [pc EXCEPT ![p] = "loaded"]
    /\ UNCHANGED <<evlogs, path, logf, op, buf, ret, pre, ncalls, saved, lazy>>

LoadReturn(p) ==
    /\ pc[p] = "loaded"
    /\ op[p].name = "load_json"
    /\ ret' = [ret EXCEPT ![p] = RetList(data[p])]
    /\ pc' = [pc EXCEPT ![p] = "done"]
    /\ UNCHANGED <<evlogs, path, inodes, logf, op, data, h, buf, pre, ncalls, saved, lazy>>

FindReturn(p) ==
    /\ pc[p] = "loaded"
    /\ op[p].name = "find_by_id"
    /\ ret' = [ret EXCEPT ![p] = find_by_id(data[p], IdField, op[p].id_value)]
    /\ pc' = [pc EXCEPT ![p] = "done"]
    /\ UNCHANGED <<evlogs, path, inodes, logf, op, data, h, buf, pre, ncalls, saved, lazy>>

ExistsReturn(p) ==
    /\ pc[p] = "loaded"
    /\ op[p].name = "exists"
    /\ ret' = [ret EXCEPT ![p] = RetBool(exists(data[p], IdField, op[p].id_value))]
    /\ pc' = [pc EXCEPT ![p] = "done"]
    /\ UNCHANGED <<evlogs, path, inodes, logf, op, data, h, buf, pre, ncalls, saved, lazy>>

\* create: data.append(record), then save_json
CreateAppend(p) ==
    /\ pc[p] = "loaded"
    /\ InCreate(p)
    /\ data' = [data EXCEPT ![p] = create(@, op[p].record)]
    /\ pc' = [pc EXCEPT ![p] = "save"]
    /\ UNCHANGED <<evlogs, path, inodes, logf, op, h, buf, ret, pre, ncalls, saved, lazy>>

\* update_by_id as it would be if it added the updates as a record when no
\* record matches
UpdateApplyUpsert(p) ==
    /\ pc[p] = "loaded"
    /\ op[p].name = "update_by_id"
    /\ IF find_index(data[p], IdField, op[p].id_value) # 0
       THEN data' = [data EXCEPT ![p] = update_by_id(@, IdField, op[p].id_value, op[p].updates)]
       ELSE data' = [data EXCEPT ![p] = Append(@, op[p].updates)]
    /\ pc' = [pc EXCEPT ![p] = "save"]
    /\ UNCHANGED <<evlogs, path, inodes, logf, op, h, buf, ret, pre, ncalls, saved, lazy>>

\* update_by_id: the first match is updated and saved; no match returns False
UpdateApply(p) ==
    /\ pc[p] = "loaded"
    /\ op[p].name = "update_by_id"
    /\ IF find_index(data[p], IdField, op[p].id_value) # 0
       THEN /\ data' = [data EXCEPT ![p] = update_by_id(@, IdField, op[p].id_value, op[p].updates)]
            /\ pc' = [pc EXCEPT ![p] = "save"]
            /\ ret' = ret
       ELSE /\ data' = data
            /\ pc' = [pc EXCEPT ![p] = "done"]
            /\ ret' = [ret EXCEPT ![p] = RetBool(FALSE)]
    /\ UNCHANGED <<evlogs, path, inodes, logf, op, h, buf, pre, ncalls, saved, lazy>>

\* delete_by_id as it would be if it saved the filtered list whatever its
\* length
DeleteApplySaves(p) ==
    /\ pc[p] = "loaded"
    /\ op[p].name = "delete_by_id"
    /\ data' = [data EXCEPT ![p] = delete_by_id(@, IdField, op[p].id_value)]
    /\ pc' = [pc EXCEPT ![p] = "save"]
    /\ UNCHANGED <<evlogs, path, inodes, logf, op, h, buf, ret, pre, ncalls, saved, lazy>>

\* delete_by_id: saved only when the filtered list is shorter
DeleteApply(p) ==
    /\ pc[p] = "loaded"
    /\ op[p].name = "delete_by_id"
    /\ LET kept == delete_by_id(data[p], IdField, op[p].id_value)
       IN IF Len(kept) < Len(data[p])
          THEN /\ data' = [data EXCEPT ![p] = kept]
               /\ pc' = [pc EXCEPT ![p] = "save"]
               /\ ret' = ret
          ELSE /\ data' = [data EXCEPT ![p] = kept]
               /\ pc' = [pc EXCEPT ![p] = "done"]
               /\ ret' = [ret EXCEPT ![p] = RetBool(FALSE)]
    /\ UNCHANGED <<evlogs, path, inodes, logf, op, h, buf, pre, ncalls, saved, lazy>>

\* save_json as it would be with open(filepath, 'w') in place of the
\* temporary file: the target itself is emptied and then written
SaveOpenInPlace(p) ==
    /\ pc[p] = "save"
    /\ IF path = NoIno
       THEN /\ path' = FreeIno
            /\ inodes' = [inodes EXCEPT ![FreeIno] = <<>>]
       ELSE /\ path' = path
            /\ inodes' = [inodes EXCEPT ![path] = <<>>]
    /\ h' = [h EXCEPT ![p] = path']
    /\ buf' = [buf EXCEPT ![p] = Serialize(data[p])]
    /\ pc' = [pc EXCEPT ![p] = "save_write"]
    /\ UNCHANGED <<evlogs, logf, op, data, ret, pre, ncalls, saved, lazy>>

\* save_json as it would be with the rename done before the text is written
SaveOpenRenamed(p) ==
    /\ pc[p] = "save"
    /\ path' = FreeIno
    /\ h' = [h EXCEPT ![p] = FreeIno]
    /\ inodes' = Collect([inodes EXCEPT ![FreeIno] = <<>>], path', h')
    /\ buf' = [buf EXCEPT ![p] = Serialize(data[p])]
    /\ pc' = [pc EXCEPT ![p] = "save_write"]
    /\ UNCHANGED <<evlogs, logf, op, data, ret, pre, ncalls, saved, lazy>>

\* save_json: NamedTemporaryFile(mode='w', dir=dir_path, delete=False)
SaveOpenTmp(p) ==
    /\ pc[p] = "save"
    /\ h' = [h EXCEPT ![p] = FreeIno]
    /\ inodes' = [inodes EXCEPT ![FreeIno] = <<>>]
    /\ buf' = [buf EXCEPT ![p] = Serialize(data[p])]
    /\ pc' = [pc EXCEPT ![p] = "save_write"]
    /\ UNCHANGED <<evlogs, path, logf, op, data, ret, pre, ncalls, saved, lazy>>

\* save_json: json.dump(data, tmp_file, indent=2); the text reaches the
\* file a buffer at a time, the last of it as the file closes
SaveWrite(p) ==
    /\ pc[p] = "save_write"
    /\ \E k \in {1, Len(buf[p])} :
          /\ inodes' = [inodes EXCEPT ![h[p]] = @ \o SubSeq(buf[p], 1, k)]
          /\ buf' = [buf EXCEPT ![p] = SubSeq(@, k + 1, Len(@))]
          /\ pc' = [pc EXCEPT ![p] = IF k = Len(buf[p]) THEN "save_replace" ELSE "save_write"]
    /\ UNCHANGED <<evlogs, path, logf, op, data, h, ret, pre, ncalls, saved, lazy>>

\* what the storage call returns once its save is done
SavedReturn(p) ==
    IF InCreate(p) THEN RetRec(op[p].record) ELSE RetBool(TRUE)

\* save_json: os.replace(tmp_path, filepath); the storage call returns, and
\* create_model goes on to AuditLogger.log
SaveReplace(p) ==
    /\ pc[p] = "save_replace"
    /\ path' = h[p]
    /\ h' = [h EXCEPT ![p] = NoIno]
    /\ inodes' = Collect(inodes, path', h')
    /\ ret' = [ret EXCEPT ![p] = SavedReturn(p)]
    /\ IF op[p].name = "create_model"
       THEN /\ op' = [op EXCEPT ![p].stage = "audit"]
            /\ pc' = [pc EXCEPT ![p] = "l_ensure"]
       ELSE /\ op' = op
            /\ pc' = [pc EXCEPT ![p] = "done"]
    /\ saved' = [q \in Procs |-> IF pc[q] \in {"idle", "done", "crashed"} THEN saved[q] ELSE saved[q] \cup {data[p]}]
    /\ UNCHANGED <<evlogs, logf, data, buf, pre, ncalls, lazy>>

\* create_model: if JSONStorage.exists(...) raise HTTPException(400), else
\* JSONStorage.create, which loads the file again
CreateModelCheck(p) ==
    /\ pc[p] = "loaded"
    /\ op[p].name = "create_model"
    /\ op[p].stage = "exists"
    /\ IF exists(data[p], IdField, op[p].record[IdField])
       THEN /\ ret' = [ret EXCEPT ![p] = RetHTTP(400)]
            /\ pc' = [pc EXCEPT ![p] = "done"]
            /\ op' = op
       ELSE /\ ret' = ret
            /\ pc' = [pc EXCEPT ![p] = "ensure"]
            /\ op' = [op EXCEPT ![p].stage = "create"]
    /\ UNCHANGED <<evlogs, path, inodes, logf, data, h, buf, pre, ncalls, saved, lazy>>

(* ----------------------- NDJSONStorage, in memory --------------------- *)
\* a line of the file parses when it is the whole text of one record
LineParses(cur) ==
    /\ Len(cur) = 2
    /\ cur[1].t = "{"
    /\ cur[2].t = "}"
    /\ cur[1].r = cur[2].r

ParsedLine(cur) == IF LineParses(cur) THEN <<cur[1].r>> ELSE <<>>

\* read_all as it would be with the try around the loop: the first line
\* that does not parse ends the reading
RECURSIVE ParseUntilBad(_, _)
ParseUntilBad(text, cur) ==
    IF text = <<>> THEN ParsedLine(cur)
    ELSE IF Head(text) = NL
         THEN IF cur = <<>> \/ LineParses(cur)
              THEN ParsedLine(cur) \o ParseUntilBad(Tail(text), <<>>)
              ELSE <<>>
    ELSE ParseUntilBad(Tail(text), Append(cur, Head(text)))

\* read_all: for line in f: strip, skip the empty, json.loads, skip what
\* does not parse; the last line need not end in a line terminator
RECURSIVE ParseFrom(_, _)
ParseFrom(text, cur) ==
    IF text = <<>> THEN ParsedLine(cur)
    ELSE IF Head(text) = NL THEN ParsedLine(cur) \o ParseFrom(Tail(text), <<>>)
    ELSE ParseFrom(Tail(text), Append(cur, Head(text)))

ParseLines(text) == ParseFrom(text, <<>>)

\* the test as it would be were a filter of no attribute matched by no
\* record
MatchesAllGiven(r, filters) == DOMAIN filters # {} /\ \A k \in DOMAIN filters : Matches(r, k, filters[k])

\* all(r.get(k) == v for k, v in filters.items())
MatchesAll(r, filters) == \A k \in DOMAIN filters : Matches(r, k, filters[k])

\* delete_record as it would be with any(...) in place of all(...)
records_to_keep_any(recs, filters) ==
    SelectSeq(recs, LAMBDA r : ~(\E k \in DOMAIN filters : Matches(r, k, filters[k])))

\* delete_record: [r for r in all_records if not all(...)]
RECURSIVE records_to_keep(_, _)
records_to_keep(recs, filters) ==
    IF recs = <<>> THEN <<>>
    ELSE IF MatchesAll(Head(recs), filters)
         THEN records_to_keep(Tail(recs), filters)
         ELSE <<Head(recs)>> \o records_to_keep(Tail(recs), filters)

\* filter_records: [r for r in records if all(...)], every record when no
\* filter is given
RECURSIVE filter_records(_, _)
filter_records(recs, filters) ==
    IF recs = <<>> THEN <<>>
    ELSE IF MatchesAll(Head(recs), filters)
         THEN <<Head(recs)>> \o filter_records(Tail(recs), filters)
         ELSE filter_records(Tail(recs), filters)

\* key=lambda x: x.get(sort_by, ''): the empty string is below every
\* timestamp
NoKey == 0

\* the key as it would be were a record without the attribute given a key
\* above every other
SortKeyHighest(r, sort_by) == IF sort_by \in DOMAIN r THEN r[sort_by] ELSE MaxVal + 1

SortKey(r, sort_by) == IF sort_by \in DOMAIN r THEN r[sort_by] ELSE NoKey

Reverse(s) == [i \in 1..Len(s) |-> s[Len(s) + 1 - i]]

\* r put into a list in ascending order, behind the records of the same key
RECURSIVE Insert(_, _, _)
Insert(sorted, r, sort_by) ==
    IF sorted = <<>> THEN <<r>>
    ELSE IF SortKey(r, sort_by) < SortKey(Head(sorted), sort_by)
         THEN <<r>> \o sorted
         ELSE <<Head(sorted)>> \o Insert(Tail(sorted), r, sort_by)

\* the list's stable ascending sort
RECURSIVE SortAscending(_, _)
SortAscending(recs, sort_by) ==
    IF recs = <<>> THEN <<>>
    ELSE Insert(SortAscending(SubSeq(recs, 1, Len(recs) - 1), sort_by), recs[Len(recs)], sort_by)

\* the sort as it would be were the ascending order reversed afterwards
sort_ascending_reversed(recs, sort_by) == Reverse(SortAscending(recs, sort_by))

\* records.sort(key=..., reverse=True): list.sort reverses the list, sorts
\* it ascending and stably, and reverses it again
sort_reverse(recs, sort_by) == Reverse(SortAscending(Reverse(recs), sort_by))

\* get_all_for_model: filter_records(filepath, model_id=model_id), sorted
get_all_for_model(recs, model_id, sort_by) ==
    sort_reverse(filter_records(recs, [model_id |-> model_id]), sort_by)

\* get_latest_for_model as it would be were records[0] taken before the sort
get_first_for_model(recs, model_id, sort_by) ==
    LET records == filter_records(recs, [model_id |-> model_id])
    IN IF records = <<>> THEN RetNone ELSE RetRec(records[1])

\* get_latest_for_model: None when nothing is left by the filter, else
\* records[0] of the sorted list
get_latest_for_model(recs, model_id, sort_by) ==
    LET records == filter_records(recs, [model_id |-> model_id])
    IN IF records = <<>> THEN RetNone ELSE RetRec(sort_reverse(records, sort_by)[1])

\* count: len(filter_records(filepath, **filters))
count(recs, filters) == Len(filter_records(recs, filters))

(* ------------------------ NDJSONStorage, steps ------------------------ *)
LogFilters ==
    {EmptyDict}
    \cup {[model_id |-> m] : m \in Ids}
    \cup {[timestamp |-> t] : t \in Vals}

AppendCalls == {[name |-> "append", record |-> r] : r \in LogRecords}
ReadCalls == {[name |-> "read_all"]}
DeleteCalls == {[name |-> "delete_record", filters |-> f, stage |-> "ensure"] : f \in LogFilters}

\* filters of one attribute, of two, and of none
SeqFilters == LogFilters \cup {[model_id |-> m, timestamp |-> t] : m \in Ids, t \in Vals}
SeqDeleteCalls == {[name |-> "delete_record", filters |-> f, stage |-> "ensure"] : f \in SeqFilters}
CountCalls == {[name |-> "count", filters |-> f] : f \in SeqFilters}

\* the calls made on a log: all of them, those of appenders and readers,
\* and those of a caller that counts and deletes
LogCalls == AppendCalls \cup ReadCalls \cup DeleteCalls
AppenderCalls == AppendCalls \cup ReadCalls
SeqLogCalls == SeqDeleteCalls \cup CountCalls \cup ReadCalls

SortFields == {"timestamp", "status"}
QueryCalls ==
    {[name |-> n, model_id |-> m, sort_by |-> s] :
        n \in {"get_all_for_model", "get_latest_for_model"}, m \in Ids, s \in SortFields}

\* the routes of the control catalog
ControlRoutes == {"create_control", "update_control", "delete_control"}

InAppend(p) ==
    \/ op[p].name = "append"
    \/ (op[p].name \in {"create_model"} \cup ControlRoutes /\ op[p].stage = "audit")

\* the control a request of the catalog routes is about
ControlId(p) == IF op[p].name = "create_control" THEN op[p].record[IdField] ELSE op[p].id_value

\* AuditLogger.log: the entry create_model appends, and the one a route of
\* the control catalog appends, which names no model
AuditEntry(p) ==
    IF op[p].name = "create_model"
    THEN [action_type |-> "create_model", entity_id |-> op[p].record[IdField], model_id |-> op[p].record[IdField]]
    ELSE [action_type |-> op[p].name, entity_id |-> ControlId(p)]

AppendRecord(p) == IF op[p].name = "append" THEN op[p].record ELSE AuditEntry(p)

\* where a call goes once ensure_file_exists is through
AfterEnsure(p) ==
    IF InAppend(p) THEN "a_open"
    ELSE IF op[p].name = "delete_record" /\ op[p].stage = "ensure" THEN "l_ensure"
    ELSE "r_open"

StageAfterEnsure(p) ==
    IF op[p].name = "delete_record" /\ op[p].stage = "ensure" THEN [op EXCEPT ![p].stage = "read"] ELSE op

StartLog(p, calls) ==
    /\ pc[p] = "idle"
    /\ ncalls < MaxCalls
    /\ \E c \in calls :
          op' = [op EXCEPT ![p] = c]
    /\ pc' = [pc EXCEPT ![p] = "l_ensure"]
    /\ pre' = [pre EXCEPT ![p] = LogState]
    /\ data' = [data EXCEPT ![p] = <<>>]
    /\ ret' = [ret EXCEPT ![p] = NoRet]
    /\ ncalls' = ncalls + 1
    /\ UNCHANGED <<evlogs, path, inodes, logf, h, buf, saved, lazy>>

\* the calls of a caller that makes one call at a time
StartLogSeq(p, calls) ==
    /\ Sequential
    /\ StartLog(p, calls)

\* a call of appenders and readers
StartRead(p) ==
    /\ pc[p] = "idle"
    /\ ncalls < MaxReads
    /\ \E c \in AppenderCalls :
          op' = [op EXCEPT ![p] = c]
    /\ pc' = [pc EXCEPT ![p] = "l_ensure"]
    /\ pre' = [pre EXCEPT ![p] = LogState]
    /\ data' = [data EXCEPT ![p] = <<>>]
    /\ ret' = [ret EXCEPT ![p] = NoRet]
    /\ ncalls' = ncalls + 1
    /\ UNCHANGED <<evlogs, path, inodes, logf, h, buf, saved, lazy>>

\* ensure_file_exists: if not path.exists()
LogEnsureCheck(p) ==
    /\ pc[p] = "l_ensure"
    /\ IF logf.exists
       THEN /\ pc' = [pc EXCEPT ![p] = AfterEnsure(p)]
            /\ op' = StageAfterEnsure(p)
       ELSE /\ pc' = [pc EXCEPT ![p] = "l_touch"]
            /\ op' = op
    /\ UNCHANGED <<evlogs, path, inodes, logf, data, h, buf, ret, pre, ncalls, saved, lazy>>

\* ensure_file_exists: path.touch() creates the file and leaves one that
\* has appeared since the test as it is
LogTouch(p) ==
    /\ pc[p] = "l_touch"
    /\ logf' = [logf EXCEPT !.exists = TRUE]
    /\ pc' = [pc EXCEPT ![p] = AfterEnsure(p)]
    /\ op' = StageAfterEnsure(p)
    /\ UNCHANGED <<evlogs, path, inodes, data, h, buf, ret, pre, ncalls, saved, lazy>>

\* append as it would be with open(filepath, 'w')
AppendOpenTruncating(p) ==
    /\ pc[p] = "a_open"
    /\ logf' = [exists |-> TRUE, text |-> <<>>]
    /\ buf' = [buf EXCEPT ![p] = Line(AppendRecord(p))]
    /\ pc' = [pc EXCEPT ![p] = "a_write"]
    /\ UNCHANGED <<evlogs, path, inodes, op, data, h, ret, pre, ncalls, saved, lazy>>

\* append: open(filepath, 'a')
AppendOpen(p) ==
    /\ pc[p] = "a_open"
    /\ logf' = [logf EXCEPT !.exists = TRUE]
    /\ buf' = [buf EXCEPT ![p] = Line(AppendRecord(p))]
    /\ pc' = [pc EXCEPT ![p] = "a_write"]
    /\ UNCHANGED <<evlogs, path, inodes, op, data, h, ret, pre, ncalls, saved, lazy>>

\* append as it would be if the line reached the file in two writes
AppendWriteInTwo(p) ==
    /\ pc[p] = "a_write"
    /\ LET k == IF Len(buf[p]) = Len(Line(AppendRecord(p))) THEN 1 ELSE Len(buf[p])
       IN /\ logf' = [logf EXCEPT !.text = @ \o SubSeq(buf[p], 1, k)]
          /\ buf' = [buf EXCEPT ![p] = SubSeq(@, k + 1, Len(@))]
          /\ pc' = [pc EXCEPT ![p] = IF k = Len(buf[p]) THEN "done" ELSE "a_write"]
          /\ ret' = [ret EXCEPT ![p] = IF k = Len(buf[p]) /\ op[p].name = "append" THEN RetNone ELSE @]
    /\ UNCHANGED <<evlogs, path, inodes, op, data, h, pre, ncalls, saved, lazy>>

\* append: f.write(json.dumps(record) + '\n'), which reaches the file in one
\* write at its end as the file closes
AppendWrite(p) ==
    /\ pc[p] = "a_write"
    /\ logf' = [logf EXCEPT !.text = @ \o buf[p]]
    /\ buf' = [buf EXCEPT ![p] = <<>>]
    /\ pc' = [pc EXCEPT ![p] = "done"]
    /\ ret' = [ret EXCEPT ![p] = IF op[p].name = "append" THEN RetNone ELSE @]
    /\ UNCHANGED <<evlogs, path, inodes, op, data, h, pre, ncalls, saved, lazy>>

\* read_all: open(filepath, 'r'); FileNotFoundError gives no records
ReadOpen(p) ==
    /\ pc[p] = "r_open"
    /\ pc' = [pc EXCEPT ![p] = "r_read"]
    /\ UNCHANGED <<evlogs, path, inodes, logf, op, data, h, buf, ret, pre, ncalls, saved, lazy>>

\* what the call that read the records returns
ReadReturn(c, recs) ==
    CASE c.name = "read_all" -> RetList(recs)
      [] c.name = "get_all_for_model" -> RetList(get_all_for_model(recs, c.model_id, c.sort_by))
      [] c.name = "get_latest_for_model" -> get_latest_for_model(recs, c.model_id, c.sort_by)
      [] c.name = "count" -> RetInt(count(recs, c.filters))

\* read_all: the lines of the file as it is now; read_all and the queries
\* made of it return, delete_record goes on to rewrite the file
ReadLines(p) ==
    /\ pc[p] = "r_read"
    /\ data' = [data EXCEPT ![p] = IF logf.exists THEN ParseLines(logf.text) ELSE <<>>]
    /\ IF op[p].name # "delete_record"
       THEN /\ ret' = [ret EXCEPT ![p] = ReadReturn(op[p], data'[p])]
            /\ pc' = [pc EXCEPT ![p] = "done"]
       ELSE /\ ret' = ret
            /\ pc' = [pc EXCEPT ![p] = "d_trunc"]
    /\ UNCHANGED <<evlogs, path, inodes, logf, op, h, buf, pre, ncalls, saved, lazy>>

\* delete_record as it would be with open(filepath, 'r+'): the file is not
\* emptied, and the kept records are written over its beginning
DeleteTruncInPlace(p) ==
    /\ pc[p] = "d_trunc"
    /\ LET kept == records_to_keep(data[p], op[p].filters)
       IN /\ ret' = [ret EXCEPT ![p] = RetInt(Len(data[p]) - Len(kept))]
          /\ data' = [data EXCEPT ![p] = kept]
          /\ buf' = [buf EXCEPT ![p] = Lines(kept)]
          /\ pc' = [pc EXCEPT ![p] = IF kept = <<>> THEN "done" ELSE "d_write"]
    /\ logf' = [logf EXCEPT !.exists = TRUE]
    /\ UNCHANGED <<evlogs, path, inodes, op, h, pre, ncalls, saved, lazy>>

\* delete_record: open(filepath, 'w') empties the file; the kept records
\* are written after it
DeleteTrunc(p) ==
    /\ pc[p] = "d_trunc"
    /\ LET kept == records_to_keep(data[p], op[p].filters)
       IN /\ ret' = [ret EXCEPT ![p] = RetInt(Len(data[p]) - Len(kept))]
          /\ data' = [data EXCEPT ![p] = kept]
          /\ buf' = [buf EXCEPT ![p] = Lines(kept)]
          /\ pc' = [pc EXCEPT ![p] = IF kept = <<>> THEN "done" ELSE "d_write"]
    /\ logf' = [exists |-> TRUE, text |-> <<>>]
    /\ UNCHANGED <<evlogs, path, inodes, op, h, pre, ncalls, saved, lazy>>

\* delete_record: f.write(json.dumps(record) + '\n') for each kept record;
\* the text reaches the file a buffer at a time, at the handle's own offset,
\* the last of it as the file closes
DeleteWrite(p) ==
    /\ pc[p] = "d_write"
    /\ \E k \in {1, Len(buf[p])} :
          /\ logf' = [logf EXCEPT !.text = Overwrite(@, Len(Lines(data[p])) - Len(buf[p]), SubSeq(buf[p], 1, k))]
          /\ buf' = [buf EXCEPT ![p] = SubSeq(@, k + 1, Len(@))]
          /\ pc' = [pc EXCEPT ![p] = IF k = Len(buf[p]) THEN "done" ELSE "d_write"]
    /\ UNCHANGED <<evlogs, path, inodes, op, data, h, ret, pre, ncalls, saved, lazy>>

\* the caller takes the result, or the dead process is started again: the
\* process is free for its next call
Finish(p) ==
    /\ pc[p] \in {"done", "crashed"}
    /\ pc' = [pc EXCEPT ![p] = "idle"]
    /\ op' = [op EXCEPT ![p] = NoCall]
    /\ data' = [data EXCEPT ![p] = <<>>]
    /\ buf' = [buf EXCEPT ![p] = <<>>]
    /\ ret' = [ret EXCEPT ![p] = NoRet]
    /\ pre' = [pre EXCEPT ![p] = [exists |-> FALSE, text |-> <<>>]]
    /\ saved' = [saved EXCEPT ![p] = {}]
    /\ UNCHANGED <<evlogs, path, inodes, logf, h, ncalls, lazy>>

\* the process dies between two steps, or right after its call returned:
\* what it had buffered is lost, its handle is closed, the files stay as
\* they are
Crash(p) ==
    /\ pc[p] \notin {"idle", "crashed"}
    /\ pc' = [pc EXCEPT ![p] = "crashed"]
    /\ h' = [h EXCEPT ![p] = NoIno]
    /\ inodes' = Collect(inodes, path, h')
    /\ UNCHANGED <<evlogs, path, logf, op, data, buf, ret, pre, ncalls, saved, lazy>>

(* ------------------- routes of the control catalog ------------------- *)
\* The collection file is controls.json here and the log is
\* audit_log.ndjson; the identifier attribute stands for control_id.
\* DEFAULT_ACCOUNTABILITY
DefaultAccountability == 1
\* a ControlCatalogEntry, and a record written before the catalog had the
\* attribute accountability
ControlRecords == {[id |-> i, a |-> v, accountability |-> c] : i \in Ids, v \in Vals, c \in {DefaultAccountability}}
LegacyRecords == DocRecords
\* DEFAULT_CONTROLS, of which one control stands for the fifteen
DefaultControls == <<[id |-> 1, a |-> 1, accountability |-> DefaultAccountability]>>

\* a ControlCatalogUpdate with one attribute set, or none
ControlCalls ==
    {[name |-> "create_control", record |-> r, stage |-> "init"] : r \in ControlRecords}
    \cup {[name |-> "update_control", id_value |-> i, updates |-> u, stage |-> "init"] : i \in Ids, u \in DocUpdates}
    \cup {[name |-> "delete_control", id_value |-> i, stage |-> "init"] : i \in Ids}

\* every route starts with initialize_control_catalog, which loads the file
StartControl(p) ==
    /\ Sequential
    /\ pc[p] = "idle"
    /\ ncalls < MaxCalls
    /\ \E c \in ControlCalls :
          op' = [op EXCEPT ![p] = c]
    /\ pc' = [pc EXCEPT ![p] = "ensure"]
    /\ pre' = [pre EXCEPT ![p] = [exists |-> FileExists, text |-> FileText, audit |-> logf]]
    /\ data' = [data EXCEPT ![p] = <<>>]
    /\ ret' = [ret EXCEPT ![p] = NoRet]
    /\ ncalls' = ncalls + 1
    /\ UNCHANGED <<evlogs, path, inodes, logf, h, buf, saved, lazy>>

\* initialize_control_catalog: an empty catalog is replaced by
\* DEFAULT_CONTROLS; otherwise every control without accountability is given
\* the default one, and the catalog is saved if there was any
ControlInit(p) ==
    /\ pc[p] = "loaded"
    /\ op[p].name \in ControlRoutes
    /\ op[p].stage = "init"
    /\ IF data[p] = <<>>
       THEN /\ data' = [data EXCEPT ![p] = DefaultControls]
            /\ pc' = [pc EXCEPT ![p] = "save"]
            /\ op' = op
       ELSE IF \E i \in 1..Len(data[p]) : "accountability" \notin DOMAIN data[p][i]
       THEN /\ data' = [data EXCEPT ![p] =
                           [i \in 1..Len(@) |->
                               IF "accountability" \notin DOMAIN @[i]
                               THEN Merge(@[i], [accountability |-> DefaultAccountability])
                               ELSE @[i]]]
            /\ pc' = [pc EXCEPT ![p] = "save"]
            /\ op' = op
       ELSE /\ data' = data
            /\ pc' = [pc EXCEPT ![p] = "ensure"]
            /\ op' = [op EXCEPT ![p].stage = "check"]
    /\ UNCHANGED <<evlogs, path, inodes, logf, h, buf, ret, pre, ncalls, saved, lazy>>

\* create_control: JSONStorage.exists, 409 for a control that exists;
\* update_control and delete_control: JSONStorage.find_by_id, 404 for a
\* control that does not; update_control: 400 for an update of no attribute;
\* then the storage call, which loads the file again
ControlCheck(p) ==
    /\ pc[p] = "loaded"
    /\ op[p].name \in ControlRoutes
    /\ op[p].stage = "check"
    /\ LET existing == find_by_id(data[p], IdField, ControlId(p))
           code == IF op[p].name = "create_control"
                   THEN IF existing # RetNone THEN 409 ELSE 0
                   ELSE IF existing = RetNone THEN 404
                   ELSE IF op[p].name = "update_control" /\ op[p].updates = EmptyDict THEN 400
                   ELSE 0
       IN IF code # 0
          THEN /\ ret' = [ret EXCEPT ![p] = RetHTTP(code)]
               /\ pc' = [pc EXCEPT ![p] = "done"]
               /\ op' = op
          ELSE /\ ret' = ret
               /\ pc' = [pc EXCEPT ![p] = "ensure"]
               /\ op' = [op EXCEPT ![p].stage = "apply"]
    /\ UNCHANGED <<evlogs, path, inodes, logf, data, h, buf, pre, ncalls, saved, lazy>>

\* JSONStorage.create, update_by_id or delete_by_id on the catalog as it was
\* loaded: update_control does not look at what update_by_id returns,
\* delete_control answers 500 when delete_by_id returns False
ControlApply(p) ==
    /\ pc[p] = "loaded"
    /\ op[p].name \in ControlRoutes
    /\ op[p].stage = "apply"
    /\ CASE op[p].name = "create_control" ->
              /\ data' = [data EXCEPT ![p] = create(@, op[p].record)]
              /\ pc' = [pc EXCEPT ![p] = "save"]
              /\ ret' = ret
              /\ op' = op
         [] op[p].name = "update_control" ->
              IF find_index(data[p], IdField, op[p].id_value) # 0
              THEN /\ data' = [data EXCEPT ![p] = update_by_id(@, IdField, op[p].id_value, op[p].updates)]
                   /\ pc' = [pc EXCEPT ![p] = "save"]
                   /\ ret' = ret
                   /\ op' = op
              ELSE /\ data' = data
                   /\ pc' = [pc EXCEPT ![p] = "l_ensure"]
                   /\ ret' = [ret EXCEPT ![p] = RetBool(FALSE)]
                   /\ op' = [op EXCEPT ![p].stage = "audit"]
         [] op[p].name = "delete_control" ->
              LET kept == delete_by_id(data[p], IdField, op[p].id_value)
              IN IF Len(kept) < Len(data[p])
                 THEN /\ data' = [data EXCEPT ![p] = kept]
                      /\ pc' = [pc EXCEPT ![p] = "save"]
                      /\ ret' = ret
                      /\ op' = op
                 ELSE /\ data' = [data EXCEPT ![p] = kept]
                      /\ pc' = [pc EXCEPT ![p] = "done"]
                      /\ ret' = [ret EXCEPT ![p] = RetHTTP(500)]
                      /\ op' = op
    /\ UNCHANGED <<evlogs, path, inodes, logf, h, buf, pre, ncalls, saved, lazy>>

\* save_json: os.replace(tmp_path, filepath); after the save of
\* initialize_control_catalog the route goes on to its test, after the save
\* of its storage call to AuditLogger.log
ControlSaveReplace(p) ==
    /\ pc[p] = "save_replace"
    /\ op[p].name \in ControlRoutes
    /\ path' = h[p]
    /\ h' = [h EXCEPT ![p] = NoIno]
    /\ inodes' = Collect(inodes, path', h')
    /\ IF op[p].stage = "init"
       THEN /\ op' = [op EXCEPT ![p].stage = "check"]
            /\ pc' = [pc EXCEPT ![p] = "ensure"]
            /\ ret' = ret
       ELSE /\ op' = [op EXCEPT ![p].stage = "audit"]
            /\ pc' = [pc EXCEPT ![p] = "l_ensure"]
            /\ ret' = [ret EXCEPT ![p] = IF op[p].name = "create_control" THEN RetRec(op[p].record) ELSE RetBool(TRUE)]
    /\ saved' = [q \in Procs |-> IF pc[q] \in {"idle", "done", "crashed"} THEN saved[q] ELSE saved[q] \cup {data[p]}]
    /\ UNCHANGED <<evlogs, logf, data, buf, pre, ncalls, lazy>>

(* -------------------- RiskScoringService, in memory ------------------- *)
\* A score is a fraction of a point.  A stored explainability_score is held
\* in hundredths of a point, and so is the risk_score of an assessment.
Pt == 100
Frac(n, d) == [num |-> n, den |-> d]
Whole(n) == Frac(n, 1)
Plus(a, b) == Frac(a.num * b.den + b.num * a.den, a.den * b.den)
Scale(k, a) == Frac(k * a.num, a.den)
Over(a, k) == Frac(a.num, a.den * k)
Geq(a, k) == a.num >= k * a.den
\* min(k, a)
Least(k, a) == IF Geq(a, k) THEN Whole(k) ELSE a

\* len([x for x in evals if x.get("status") == status])
CountStatus(evals, status) == Len(SelectSeq(evals, LAMBDA x : Matches(x, "status", status)))

\* _calculate_bias_score as it would be were the regulatory concern tested
\* before the status
calculate_bias_score_flag_first(bias_evals) ==
    IF bias_evals = <<>> THEN Whole(30)
    ELSE LET latest == bias_evals[1]
         IN IF Matches(latest, "regulatory_concern_flag", TRUE) THEN Whole(80)
            ELSE IF Matches(latest, "status", "unacceptable") THEN Whole(90)
            ELSE IF Matches(latest, "customer_harm_risk", "high") THEN Whole(70)
            ELSE IF Matches(latest, "status", "needs_review") THEN Whole(50)
            ELSE IF Matches(latest, "customer_harm_risk", "medium") THEN Whole(30)
            ELSE Whole(10)

\* _calculate_bias_score
calculate_bias_score(bias_evals) ==
    IF bias_evals = <<>> THEN Whole(30)
    ELSE LET latest == bias_evals[1]
         IN IF Matches(latest, "status", "unacceptable") THEN Whole(90)
            ELSE IF Matches(latest, "regulatory_concern_flag", TRUE) THEN Whole(80)
            ELSE IF Matches(latest, "customer_harm_risk", "high") THEN Whole(70)
            ELSE IF Matches(latest, "status", "needs_review") THEN Whole(50)
            ELSE IF Matches(latest, "customer_harm_risk", "medium") THEN Whole(30)
            ELSE Whole(10)

\* _calculate_control_score as it would be were a needs_review evaluation
\* counted as a failed one
calculate_control_score_review_fails(control_evals) ==
    IF control_evals = <<>> THEN Whole(60)
    ELSE LET total == Len(control_evals)
             failed == CountStatus(control_evals, "failed")
             needs_review == CountStatus(control_evals, "needs_review")
         IN Least(100, Scale(100, Frac(failed + needs_review, total)))

\* _calculate_control_score: failure_rate = (failed + needs_review * 0.5) / total
calculate_control_score(control_evals) ==
    IF control_evals = <<>> THEN Whole(60)
    ELSE LET total == Len(control_evals)
             failed == CountStatus(control_evals, "failed")
             needs_review == CountStatus(control_evals, "needs_review")
         IN Least(100, Scale(100, Frac(2 * failed + needs_review, 2 * total)))

\* _calculate_explainability_score: 100 - score, whatever the score
calculate_explainability_score(explainability_evals) ==
    IF explainability_evals = <<>> THEN Whole(40)
    ELSE LET latest == explainability_evals[1]
         IN IF "explainability_score" \notin DOMAIN latest THEN Whole(40)
            ELSE Frac(100 * Pt - latest.explainability_score, Pt)

\* _calculate_drift_score
calculate_drift_score(drift_evals) ==
    IF drift_evals = <<>> THEN Whole(20)
    ELSE LET breached == CountStatus(drift_evals, "breached")
         IN IF breached > 0 THEN Least(100, Whole(breached * 40)) ELSE Whole(5)

\* len(model.get(k, []))
LenOf(model, k) == IF k \in DOMAIN model THEN Len(model[k]) ELSE 0

\* _calculate_operational_score as it would be were the two jurisdiction
\* thresholds inclusive
calculate_operational_score_inclusive(model) ==
    LET prod == IF Matches(model, "deployment_environment", "prod") THEN 30 ELSE 0
        jurisdictions == IF LenOf(model, "jurisdictions") >= 10 THEN 30
                         ELSE IF LenOf(model, "jurisdictions") >= 5 THEN 15 ELSE 0
        high_stakes == IF \E u \in {"Pricing", "Underwriting", "Claims"} : Matches(model, "use_case_category", u)
                       THEN 20 ELSE 0
        external == IF LenOf(model, "external_data_sources") > 2 THEN 20 ELSE 0
    IN Least(100, Whole(prod + jurisdictions + high_stakes + external))

\* _calculate_operational_score
calculate_operational_score(model) ==
    LET prod == IF Matches(model, "deployment_environment", "prod") THEN 30 ELSE 0
        jurisdictions == IF LenOf(model, "jurisdictions") > 10 THEN 30
                         ELSE IF LenOf(model, "jurisdictions") > 5 THEN 15 ELSE 0
        high_stakes == IF \E u \in {"Pricing", "Underwriting", "Claims"} : Matches(model, "use_case_category", u)
                       THEN 20 ELSE 0
        external == IF LenOf(model, "external_data_sources") > 2 THEN 20 ELSE 0
    IN Least(100, Whole(prod + jurisdictions + high_stakes + external))

\* the five component scores of a model and of its events as
\* get_all_for_model returned them, in the order of ScoreLogs
Components(model, evals) ==
    [bias |-> calculate_bias_score(evals[2]),
     control |-> calculate_control_score(evals[1]),
     explainability |-> calculate_explainability_score(evals[3]),
     drift |-> calculate_drift_score(evals[4]),
     operational |-> calculate_operational_score(model)]

\* total_score as it would be with the weights of bias and controls exchanged
total_score_swapped(c) ==
    Over(Plus(Plus(Plus(Plus(Scale(25, c.bias), Scale(40, c.control)), Scale(20, c.explainability)),
                   Scale(10, c.drift)), Scale(5, c.operational)), 100)

\* total_score = bias * 0.40 + control * 0.25 + explainability * 0.20
\*               + drift * 0.10 + operational * 0.05
total_score(c) ==
    Over(Plus(Plus(Plus(Plus(Scale(40, c.bias), Scale(25, c.control)), Scale(20, c.explainability)),
                   Scale(10, c.drift)), Scale(5, c.operational)), 100)

\* the level as it would be with the cutoffs exclusive
risk_level_exclusive(total) ==
    IF ~Geq(Scale(-1, total), -80) THEN "critical"
    ELSE IF ~Geq(Scale(-1, total), -60) THEN "high"
    ELSE IF ~Geq(Scale(-1, total), -30) THEN "medium"
    ELSE "low"

\* if total_score >= 80 ... elif >= 60 ... elif >= 30 ... else
risk_level(total) ==
    IF Geq(total, 80) THEN "critical"
    ELSE IF Geq(total, 60) THEN "high"
    ELSE IF Geq(total, 30) THEN "medium"
    ELSE "low"

\* risk_drivers as it would be were a component a driver only above its
\* threshold
risk_drivers_above(c) ==
    LET drivers ==
            (IF ~Geq(Scale(-1, c.bias), -70) THEN <<"Unfair discrimination concerns">> ELSE <<>>)
            \o (IF ~Geq(Scale(-1, c.control), -60) THEN <<"Failed mandatory controls">> ELSE <<>>)
            \o (IF ~Geq(Scale(-1, c.explainability), -50) THEN <<"Low explainability for customer-facing decisions">> ELSE <<>>)
            \o (IF ~Geq(Scale(-1, c.drift), -70) THEN <<"Model drift threshold breaches">> ELSE <<>>)
            \o (IF ~Geq(Scale(-1, c.operational), -50) THEN <<"High-risk operational deployment">> ELSE <<>>)
    IN IF drivers = <<>> THEN <<"No significant risks identified">> ELSE drivers

\* risk_drivers, or the placeholder when there is none
risk_drivers(c) ==
    LET drivers ==
            (IF Geq(c.bias, 70) THEN <<"Unfair discrimination concerns">> ELSE <<>>)
            \o (IF Geq(c.control, 60) THEN <<"Failed mandatory controls">> ELSE <<>>)
            \o (IF Geq(c.explainability, 50) THEN <<"Low explainability for customer-facing decisions">> ELSE <<>>)
            \o (IF Geq(c.drift, 70) THEN <<"Model drift threshold breaches">> ELSE <<>>)
            \o (IF Geq(c.operational, 50) THEN <<"High-risk operational deployment">> ELSE <<>>)
    IN IF drivers = <<>> THEN <<"No significant risks identified">> ELSE drivers

\* round(total_score, 2), in hundredths: the nearest hundredth, and either
\* neighbour when the total is halfway between two, where the binary value
\* of the sum decides
Rounded(total) ==
    LET q == (Pt * total.num) \div total.den
        r == (Pt * total.num) % total.den
    IN IF 2 * r < total.den THEN {q}
       ELSE IF 2 * r > total.den THEN {q + 1}
       ELSE {q, q + 1}

RetAssessment(model_id, score, level, drivers) ==
    [kind |-> "RiskAssessment", model_id |-> model_id, risk_score |-> score,
     risk_level |-> level, primary_risk_drivers |-> drivers]
RetValidationError == [kind |-> "ValidationError"]

\* RiskAssessment(...): risk_score is a Field(ge=0, le=100), and a value
\* outside it is refused by the constructor
Assess(model_id, c, score) ==
    IF score < 0 \/ score > 100 * Pt THEN RetValidationError
    ELSE RetAssessment(model_id, score, risk_level(total_score(c)), risk_drivers(c))

(* --------------------- RiskScoringService, steps ---------------------- *)
ScoreCalls == {[name |-> "calculate_risk_score", model_id |-> m] : m \in Ids}

\* the collection file is models.json here; the call starts with
\* JSONStorage.find_by_id, which loads it
StartScore(p) ==
    /\ Sequential
    /\ pc[p] = "idle"
    /\ ncalls < MaxScores
    /\ \E c \in ScoreCalls :
          op' = [op EXCEPT ![p] = c]
    /\ pc' = [pc EXCEPT ![p] = "ensure"]
    /\ pre' = [pre EXCEPT ![p] = [exists |-> FileExists, text |-> FileText, logs |-> evlogs]]
    /\ data' = [data EXCEPT ![p] = <<>>]
    /\ ret' = [ret EXCEPT ![p] = NoRet]
    /\ ncalls' = ncalls + 1
    /\ UNCHANGED <<evlogs, path, inodes, logf, h, buf, saved, lazy>>

\* the lookup as it would be were the first record of the collection taken
\* whatever its identifier
ScoreFindAny(p) ==
    /\ pc[p] = "loaded"
    /\ op[p].name = "calculate_risk_score"
    /\ IF data[p] = <<>>
       THEN /\ ret' = [ret EXCEPT ![p] = RetNone]
            /\ pc' = [pc EXCEPT ![p] = "done"]
            /\ data' = data
       ELSE /\ ret' = ret
            /\ pc' = [pc EXCEPT ![p] = "s_read"]
            /\ data' = [data EXCEPT ![p] = [model |-> data[p][1], evals |-> <<>>]]
    /\ UNCHANGED <<evlogs, path, inodes, logf, op, h, buf, pre, ncalls, saved, lazy>>

\* model = JSONStorage.find_by_id(models_file, "model_id", model_id);
\* if not model: return None
ScoreFind(p) ==
    /\ pc[p] = "loaded"
    /\ op[p].name = "calculate_risk_score"
    /\ LET model == find_by_id(data[p], "model_id", op[p].model_id)
       IN IF model = RetNone
          THEN /\ ret' = [ret EXCEPT ![p] = RetNone]
               /\ pc' = [pc EXCEPT ![p] = "done"]
               /\ data' = data
          ELSE /\ ret' = ret
               /\ pc' = [pc EXCEPT ![p] = "s_read"]
               /\ data' = [data EXCEPT ![p] = [model |-> model.r, evals |-> <<>>]]
    /\ UNCHANGED <<evlogs, path, inodes, logf, op, h, buf, pre, ncalls, saved, lazy>>

\* NDJSONStorage.get_all_for_model(file, model_id) on the next of the four
\* logs: ensure_file_exists, read_all, the filter and the sort
ScoreRead(p) ==
    /\ pc[p] = "s_read"
    /\ LET f == ScoreLogs[Len(data[p].evals) + 1]
           recs == get_all_for_model(ParseLines(evlogs[f].text), op[p].model_id, "timestamp")
       IN /\ evlogs' = [evlogs EXCEPT ![f].exists = TRUE]
          /\ data' = [data EXCEPT ![p].evals = Append(@, recs)]
          /\ pc' = [pc EXCEPT ![p] = IF Len(data[p].evals) + 1 = Len(ScoreLogs) THEN "s_score" ELSE "s_read"]
    /\ UNCHANGED <<path, inodes, logf, op, h, buf, ret, pre, ncalls, saved, lazy>>

\* the return as it would be were the assessment appended to the
\* risk-assessment log before it is returned
ScoreReturnPersists(p) ==
    /\ pc[p] = "s_score"
    /\ LET c == Components(data[p].model, data[p].evals)
       IN \E score \in Rounded(total_score(c)) :
             /\ ret' = [ret EXCEPT ![p] = Assess(op[p].model_id, c, score)]
             /\ evlogs' = [evlogs EXCEPT !["risk_assessments"] =
                              [exists |-> TRUE, text |-> @.text \o Line(ret'[p])]]
    /\ pc' = [pc EXCEPT ![p] = "done"]
    /\ UNCHANGED <<path, inodes, logf, op, data, h, buf, pre, ncalls, saved, lazy>>

\* the component scores, the total, the level, the drivers and the
\* assessment that is returned
ScoreReturn(p) ==
    /\ pc[p] = "s_score"
    /\ LET c == Components(data[p].model, data[p].evals)
       IN \E score \in Rounded(total_score(c)) :
             ret' = [ret EXCEPT ![p] = Assess(op[p].model_id, c, score)]
    /\ pc' = [pc EXCEPT ![p] = "done"]
    /\ UNCHANGED <<evlogs, path, inodes, logf, op, data, h, buf, pre, ncalls, saved, lazy>>

(* --------------------------- specifications --------------------------- *)
InitLogFile ==
    \/ logf = [exists |-> FALSE, text |-> <<>>]
    \/ \E recs \in SeqsUpTo(LogRecords, MaxLen) : logf = [exists |-> TRUE, text |-> Lines(recs)]

\* the collection file, its storage calls and create_model
InitDoc ==
    /\ InitProcs
    /\ evlogs = NoEvalLogs
    /\ InitDocFile
    /\ logf = [exists |-> FALSE, text |-> <<>>]

NextDoc ==
    \E p \in Procs :
        \/ StartDoc(p)
        \/ EnsureCheck(p)
        \/ EnsureOpen(p)
        \/ EnsureWrite(p)
        \/ OpenRead(p)
        \/ ReadFile(p)
        \/ LoadReturn(p)
        \/ FindReturn(p)
        \/ ExistsReturn(p)
        \/ CreateAppend(p)
        \/ UpdateApply(p)
        \/ DeleteApply(p)
        \/ CreateModelCheck(p)
        \/ SaveOpenTmp(p)
        \/ SaveWrite(p)
        \/ SaveReplace(p)
        \/ LogEnsureCheck(p)
        \/ LogTouch(p)
        \/ AppendOpen(p)
        \/ AppendWrite(p)
        \/ Finish(p)
        \/ Crash(p)

SpecDoc == InitDoc /\ [][NextDoc]_vars

\* the log file and its storage calls
InitLog ==
    /\ InitProcs
    /\ evlogs = NoEvalLogs
    /\ InitLogFile
    /\ path = NoIno
    /\ inodes = [i \in InoIds |-> <<>>]

NextLog ==
    \E p \in Procs :
        \/ StartLog(p, LogCalls)
        \/ LogEnsureCheck(p)
        \/ LogTouch(p)
        \/ AppendOpen(p)
        \/ AppendWrite(p)
        \/ ReadOpen(p)
        \/ ReadLines(p)
        \/ DeleteTrunc(p)
        \/ DeleteWrite(p)
        \/ Finish(p)
        \/ Crash(p)

SpecLog == InitLog /\ [][NextLog]_vars

\* the log file with appenders and readers only
NextAppend ==
    \E p \in Procs :
        \/ StartLog(p, AppenderCalls)
        \/ LogEnsureCheck(p)
        \/ LogTouch(p)
        \/ AppendOpen(p)
        \/ AppendWrite(p)
        \/ ReadOpen(p)
        \/ ReadLines(p)
        \/ Finish(p)
        \/ Crash(p)

SpecAppend == InitLog /\ [][NextAppend]_vars

\* appenders and readers, with calls enough for two reads around an append
NextReads ==
    \E p \in Procs :
        \/ StartRead(p)
        \/ LogEnsureCheck(p)
        \/ LogTouch(p)
        \/ AppendOpen(p)
        \/ AppendWrite(p)
        \/ ReadOpen(p)
        \/ ReadLines(p)
        \/ Finish(p)
        \/ Crash(p)

SpecReads == InitLog /\ [][NextReads]_vars

\* the collection file under a caller that makes one call at a time
NextSeq ==
    \E p \in Procs :
        \/ StartSeq(p)
        \/ EnsureCheck(p)
        \/ EnsureOpen(p)
        \/ EnsureWrite(p)
        \/ OpenRead(p)
        \/ ReadFile(p)
        \/ LoadReturn(p)
        \/ FindReturn(p)
        \/ ExistsReturn(p)
        \/ CreateAppend(p)
        \/ UpdateApply(p)
        \/ DeleteApply(p)
        \/ SaveOpenTmp(p)
        \/ SaveWrite(p)
        \/ SaveReplace(p)
        \/ Finish(p)

SpecSeq == InitDoc /\ [][NextSeq]_vars

\* the log file under a caller that makes one call at a time
InitLogSeq ==
    /\ InitProcs
    /\ evlogs = NoEvalLogs
    /\ \/ logf = [exists |-> FALSE, text |-> <<>>]
       \/ \E recs \in SeqsUpTo(LogRecords, MaxLog) : logf = [exists |-> TRUE, text |-> Lines(recs)]
    /\ path = NoIno
    /\ inodes = [i \in InoIds |-> <<>>]

NextLogSeq ==
    \E p \in Procs :
        \/ StartLogSeq(p, SeqLogCalls)
        \/ LogEnsureCheck(p)
        \/ LogTouch(p)
        \/ ReadOpen(p)
        \/ ReadLines(p)
        \/ DeleteTrunc(p)
        \/ DeleteWrite(p)
        \/ Finish(p)

SpecLogSeq == InitLogSeq /\ [][NextLogSeq]_vars

\* a log of evaluation events and the queries on it
InitQuery ==
    /\ InitProcs
    /\ evlogs = NoEvalLogs
    /\ \/ logf = [exists |-> FALSE, text |-> <<>>]
       \/ \E recs \in SeqsUpTo(EvalRecords, MaxLog) : logf = [exists |-> TRUE, text |-> Lines(recs)]
    /\ path = NoIno
    /\ inodes = [i \in InoIds |-> <<>>]

NextQuery ==
    \E p \in Procs :
        \/ StartLogSeq(p, QueryCalls)
        \/ LogEnsureCheck(p)
        \/ LogTouch(p)
        \/ ReadOpen(p)
        \/ ReadLines(p)
        \/ Finish(p)

SpecQuery == InitQuery /\ [][NextQuery]_vars

\* a log in which some events lack the timestamp and others the status,
\* and the queries on it
SparseRecords == LogRecords \cup {[model_id |-> m, status |-> v] : m \in Ids, v \in Vals}

InitSparse ==
    /\ InitProcs
    /\ evlogs = NoEvalLogs
    /\ \/ logf = [exists |-> FALSE, text |-> <<>>]
       \/ \E recs \in SeqsUpTo(SparseRecords, MaxLog) : logf = [exists |-> TRUE, text |-> Lines(recs)]
    /\ path = NoIno
    /\ inodes = [i \in InoIds |-> <<>>]

SpecSparse == InitSparse /\ [][NextQuery]_vars

\* a collection file that holds any text, and its loaders
LoadCalls == {[name |-> "load_json"]}

StartLoad(p) ==
    /\ Sequential
    /\ pc[p] = "idle"
    /\ ncalls < MaxCalls
    /\ \E c \in LoadCalls :
          op' = [op EXCEPT ![p] = c]
    /\ pc' = [pc EXCEPT ![p] = "ensure"]
    /\ pre' = [pre EXCEPT ![p] = FileState]
    /\ data' = [data EXCEPT ![p] = <<>>]
    /\ ret' = [ret EXCEPT ![p] = NoRet]
    /\ ncalls' = ncalls + 1
    /\ UNCHANGED <<evlogs, path, inodes, logf, h, buf, saved, lazy>>

TextTokens == {LB, RB, Hole} \cup {RecTok(r) : r \in DocRecords}

\* an array opened inside the array: the collections hold records, never
\* arrays
NestedArray(t) ==
    /\ t # <<>>
    /\ t[1] = LB
    /\ \E i \in 2..Len(t) : t[i] = LB /\ \A j \in 2..(i - 1) : t[j] # RB

\* the texts of up to MaxText tokens: whole arrays, their heads and tails,
\* arrays followed by more text, a record on its own, never-written bytes
AnyTexts == {t \in SeqsUpTo(TextTokens, MaxText) : ~NestedArray(t)}

InitAnyText ==
    /\ InitProcs
    /\ evlogs = NoEvalLogs
    /\ \/ /\ path = NoIno
          /\ inodes = [i \in InoIds |-> <<>>]
       \/ \E t \in AnyTexts :
             /\ path = 1
             /\ inodes = [i \in InoIds |-> IF i = 1 THEN t ELSE <<>>]
    /\ logf = [exists |-> FALSE, text |-> <<>>]

NextAnyText ==
    \E p \in Procs :
        \/ StartLoad(p)
        \/ EnsureCheck(p)
        \/ EnsureOpen(p)
        \/ EnsureWrite(p)
        \/ OpenRead(p)
        \/ ReadFile(p)
        \/ LoadReturn(p)
        \/ Finish(p)

SpecAnyText == InitAnyText /\ [][NextAnyText]_vars

\* a collection file that holds any text, and one mutating call on it
MutateCalls == {c \in DocCalls : c.name \in {"create", "update_by_id", "delete_by_id"}}

StartMutate(p) ==
    /\ Sequential
    /\ pc[p] = "idle"
    /\ ncalls < MaxMutations
    /\ \E c \in MutateCalls :
          op' = [op EXCEPT ![p] = c]
    /\ pc' = [pc EXCEPT ![p] = "ensure"]
    /\ pre' = [pre EXCEPT ![p] = FileState]
    /\ data' = [data EXCEPT ![p] = <<>>]
    /\ ret' = [ret EXCEPT ![p] = NoRet]
    /\ ncalls' = ncalls + 1
    /\ UNCHANGED <<evlogs, path, inodes, logf, h, buf, saved, lazy>>

NextBroken ==
    \E p \in Procs :
        \/ StartMutate(p)
        \/ EnsureCheck(p)
        \/ EnsureOpen(p)
        \/ EnsureWrite(p)
        \/ OpenRead(p)
        \/ ReadFile(p)
        \/ CreateAppend(p)
        \/ UpdateApply(p)
        \/ DeleteApply(p)
        \/ SaveOpenTmp(p)
        \/ SaveWrite(p)
        \/ SaveReplace(p)
        \/ Finish(p)

SpecBroken == InitAnyText /\ [][NextBroken]_vars

\* the control catalog and the requests of its routes, one at a time: the
\* catalog is absent, or holds controls of which some may have been written
\* without accountability
ControlCollections == {d \in SeqsUpTo(ControlRecords \cup LegacyRecords, MaxLen) : UniqueIds(d)}

InitControlRoutes ==
    /\ InitProcs
    /\ evlogs = NoEvalLogs
    /\ \/ /\ path = NoIno
          /\ inodes = [i \in InoIds |-> <<>>]
       \/ \E d \in ControlCollections :
             /\ path = 1
             /\ inodes = [i \in InoIds |-> IF i = 1 THEN Serialize(d) ELSE <<>>]
    /\ logf = [exists |-> FALSE, text |-> <<>>]

NextControlRoutes ==
    \E p \in Procs :
        \/ StartControl(p)
        \/ EnsureCheck(p)
        \/ EnsureOpen(p)
        \/ EnsureWrite(p)
        \/ OpenRead(p)
        \/ ReadFile(p)
        \/ ControlInit(p)
        \/ ControlCheck(p)
        \/ ControlApply(p)
        \/ SaveOpenTmp(p)
        \/ SaveWrite(p)
        \/ ControlSaveReplace(p)
        \/ LogEnsureCheck(p)
        \/ LogTouch(p)
        \/ AppendOpen(p)
        \/ AppendWrite(p)
        \/ Finish(p)

SpecControlRoutes == InitControlRoutes /\ [][NextControlRoutes]_vars

\* a log that holds damaged lines among the whole ones, and its readers
LineRecords == {[model_id |-> m, timestamp |-> 1] : m \in Ids}

\* what a line of a damaged log can hold: nothing, a record, the head or
\* the tail of one, bytes never written, a record behind such bytes, two
\* records with no line terminator between them
LineTexts ==
    {<<>>, <<Hole>>}
    \cup {<<ObjL(r), ObjR(r)>> : r \in LineRecords}
    \cup {<<ObjL(r)>> : r \in LineRecords}
    \cup {<<ObjR(r)>> : r \in LineRecords}
    \cup {<<Hole, ObjL(r), ObjR(r)>> : r \in LineRecords}
    \cup {<<ObjL(r), ObjR(r), ObjL(q), ObjR(q)>> : r \in LineRecords, q \in LineRecords}

RECURSIVE JoinLines(_)
JoinLines(ls) == IF ls = <<>> THEN <<>> ELSE Head(ls) \o <<NL>> \o JoinLines(Tail(ls))

\* the texts of up to MaxLines lines, the last one with or without its
\* line terminator
DamagedTexts ==
    {JoinLines(ls) : ls \in SeqsUpTo(LineTexts, MaxLines)}
    \cup {JoinLines(ls) \o l : ls \in SeqsUpTo(LineTexts, MaxLines - 1), l \in LineTexts}

InitLines ==
    /\ InitProcs
    /\ evlogs = NoEvalLogs
    /\ \/ logf = [exists |-> FALSE, text |-> <<>>]
       \/ \E t \in DamagedTexts : logf = [exists |-> TRUE, text |-> t]
    /\ path = NoIno
    /\ inodes = [i \in InoIds |-> <<>>]

NextLines ==
    \E p \in Procs :
        \/ StartLogSeq(p, ReadCalls)
        \/ LogEnsureCheck(p)
        \/ LogTouch(p)
        \/ ReadOpen(p)
        \/ ReadLines(p)
        \/ Finish(p)

SpecLines == InitLines /\ [][NextLines]_vars

\* a damaged log of up to MaxRewrite tokens that is read and rewritten: by
\* a delete_record of no attribute, or of one model
MaxRewrite == 8
RewriteTexts == {t \in DamagedTexts : Len(t) <= MaxRewrite}
RewriteFilters == {EmptyDict} \cup {[model_id |-> m] : m \in Ids}
RewriteCalls ==
    {[name |-> "delete_record", filters |-> f, stage |-> "ensure"] : f \in RewriteFilters} \cup ReadCalls

InitRewrite ==
    /\ InitProcs
    /\ evlogs = NoEvalLogs
    /\ \/ logf = [exists |-> FALSE, text |-> <<>>]
       \/ \E t \in RewriteTexts : logf = [exists |-> TRUE, text |-> t]
    /\ path = NoIno
    /\ inodes = [i \in InoIds |-> <<>>]

NextRewrite ==
    \E p \in Procs :
        \/ StartLogSeq(p, RewriteCalls)
        \/ LogEnsureCheck(p)
        \/ LogTouch(p)
        \/ ReadOpen(p)
        \/ ReadLines(p)
        \/ DeleteTrunc(p)
        \/ DeleteWrite(p)
        \/ Finish(p)

SpecRewrite == InitRewrite /\ [][NextRewrite]_vars

\* the store RiskScoringService reads: the models collection and the
\* evaluation logs
Names(n) == [i \in 1..n |-> i]
Environments == {"dev", "prod"}
UseCases == {"Marketing", "Pricing"}
ModelRecords ==
    {[model_id |-> m, deployment_environment |-> d, use_case_category |-> u,
      jurisdictions |-> Names(2), external_data_sources |-> Names(1)] :
        m \in Ids, d \in Environments, u \in UseCases}

BiasStatuses == {"acceptable", "needs_review", "unacceptable"}
HarmRisks == {"low", "medium", "high"}
BiasEvents ==
    {[model_id |-> m, timestamp |-> t, status |-> s, regulatory_concern_flag |-> f, customer_harm_risk |-> k] :
        m \in Ids, t \in Vals, s \in BiasStatuses, f \in BOOLEAN, k \in HarmRisks}

ControlStatuses == {"passed", "failed", "needs_review", "not_applicable"}
ControlEvaluations ==
    {[model_id |-> m, control_id |-> c, status |-> s] : m \in Ids, c \in Vals, s \in ControlStatuses}

\* 25.00, 25.05 and 75.00
ExplainabilityScores == {25 * Pt, 25 * Pt + 5, 75 * Pt}
ExplainabilityEvents ==
    {[model_id |-> m, timestamp |-> 1, explainability_score |-> x] : m \in Ids, x \in ExplainabilityScores}

DriftStatuses == {"within_tolerance", "breached"}
DriftEvents == {[model_id |-> m, timestamp |-> 1, status |-> s] : m \in Ids, s \in DriftStatuses}

\* the events of the logs of a store in which every log has one event at most
FewBias == {e \in BiasEvents : e.timestamp = 1 /\ ~e.regulatory_concern_flag /\ e.customer_harm_risk = "low" /\ e.status # "needs_review"}
FewControls == {e \in ControlEvaluations : e.control_id = 1 /\ e.status \in {"passed", "failed"}}

LogOf(recs) == [exists |-> TRUE, text |-> Lines(recs)]

InitModels(collections) ==
    \/ /\ path = NoIno
       /\ inodes = [i \in InoIds |-> <<>>]
    \/ \E d \in collections :
          /\ path = 1
          /\ inodes = [i \in InoIds |-> IF i = 1 THEN Serialize(d) ELSE <<>>]

ScoreCollections == SeqsUpTo(ModelRecords, 1)

InitScore ==
    /\ InitProcs
    /\ InitModels(ScoreCollections)
    /\ logf = [exists |-> FALSE, text |-> <<>>]
    /\ \/ evlogs = NoEvalLogs
       \/ \E b \in SeqsUpTo(FewBias, 1), c \in SeqsUpTo(FewControls, 1),
             e \in SeqsUpTo(ExplainabilityEvents, 1), d \in SeqsUpTo(DriftEvents, 1) :
             evlogs = [f \in EvalLogs |->
                          CASE f = "bias" -> LogOf(b)
                            [] f = "control_evaluations" -> LogOf(c)
                            [] f = "explainability" -> LogOf(e)
                            [] f = "drift" -> LogOf(d)
                            [] OTHER -> [exists |-> FALSE, text |-> <<>>]]

NextScore ==
    \E p \in Procs :
        \/ StartScore(p)
        \/ EnsureCheck(p)
        \/ EnsureOpen(p)
        \/ EnsureWrite(p)
        \/ OpenRead(p)
        \/ ReadFile(p)
        \/ ScoreFind(p)
        \/ ScoreRead(p)
        \/ ScoreReturn(p)
        \/ Finish(p)

SpecScore == InitScore /\ [][NextScore]_vars

\* a store whose explainability log holds any number as a score: the
\* routes refuse a score outside 0..100, NDJSONStorage.append and the file
\* do not
StoredScores == {-20 * Pt, 0, 100 * Pt, 150 * Pt}
StoredExplainability ==
    {[model_id |-> m, timestamp |-> 1, explainability_score |-> x] : m \in Ids, x \in StoredScores}
OneCollections == {<<r>> : r \in {x \in ModelRecords : x.deployment_environment = "dev" /\ x.use_case_category = "Marketing"}}

InitStored ==
    /\ InitProcs
    /\ InitModels(OneCollections)
    /\ logf = [exists |-> FALSE, text |-> <<>>]
    /\ \E e \in SeqsUpTo(StoredExplainability, 1), d \in SeqsUpTo(DriftEvents, MaxLog) :
          evlogs = [NoEvalLogs EXCEPT !["explainability"] = LogOf(e), !["drift"] = LogOf(d)]

SpecStored == InitStored /\ [][NextScore]_vars

\* a store whose bias log holds up to MaxLen events of any kind
InitBias ==
    /\ InitProcs
    /\ InitModels(OneCollections)
    /\ logf = [exists |-> FALSE, text |-> <<>>]
    /\ \/ evlogs = NoEvalLogs
       \/ \E b \in SeqsUpTo(BiasEvents, MaxLen) : evlogs = [NoEvalLogs EXCEPT !["bias"] = LogOf(b)]

SpecBias == InitBias /\ [][NextScore]_vars

\* a store whose control-evaluation log holds up to MaxLog evaluations
InitControls ==
    /\ InitProcs
    /\ InitModels(OneCollections)
    /\ logf = [exists |-> FALSE, text |-> <<>>]
    /\ \/ evlogs = NoEvalLogs
       \/ \E c \in SeqsUpTo(ControlEvaluations, MaxLog) :
             evlogs = [NoEvalLogs EXCEPT !["control_evaluations"] = LogOf(c)]

SpecControls == InitControls /\ [][NextScore]_vars

\* a store whose model is of any environment and use case, in 5, 6, 10 or 11
\* jurisdictions, with 2 or 3 external data sources
DeploymentEnvironments == {"dev", "test", "prod"}
UseCaseCategories == {"Pricing", "Underwriting", "Claims", "Fraud", "Marketing"}
JurisdictionCounts == {5, 6, 10, 11}
SourceCounts == {2, 3}
OperationalModels ==
    {[model_id |-> 1, deployment_environment |-> d, use_case_category |-> u,
      jurisdictions |-> Names(j), external_data_sources |-> Names(s)] :
        d \in DeploymentEnvironments, u \in UseCaseCategories, j \in JurisdictionCounts, s \in SourceCounts}
OperationalCollections == {<<r>> : r \in OperationalModels}

InitOperational ==
    /\ InitProcs
    /\ InitModels(OperationalCollections)
    /\ logf = [exists |-> FALSE, text |-> <<>>]
    /\ \/ evlogs = NoEvalLogs
       \/ \E b \in SeqsUpTo(FewBias, 1), d \in SeqsUpTo(DriftEvents, 1) :
             evlogs = [NoEvalLogs EXCEPT !["bias"] = LogOf(b), !["drift"] = LogOf(d)]

SpecOperational == InitOperational /\ [][NextScore]_vars

\* a store whose components are below, at and above the thresholds of the
\* risk drivers: bias 10, 30 or 70, controls 0, 60 or 100, explainability
\* 49.99, 50 or 75, drift 5, 20, 40 or 80, operational 0, 20, 30 or 50
DriverModels == {<<r>> : r \in {x \in ModelRecords : x.model_id = 1}}
DriverBias ==
    {e \in BiasEvents : /\ e.model_id = 1 /\ e.timestamp = 1 /\ e.status = "acceptable"
                        /\ ~e.regulatory_concern_flag /\ e.customer_harm_risk \in {"low", "high"}}
DriverControls == {e \in FewControls : e.model_id = 1}
DriverExplainability ==
    {[model_id |-> 1, timestamp |-> 1, explainability_score |-> x] : x \in {25 * Pt, 50 * Pt, 50 * Pt + 1}}
DriverDrift == {e \in DriftEvents : e.model_id = 1}

InitDrivers ==
    /\ InitProcs
    /\ InitModels(DriverModels)
    /\ logf = [exists |-> FALSE, text |-> <<>>]
    /\ \E b \in SeqsUpTo(DriverBias, 1), c \in SeqsUpTo(DriverControls, 1),
          e \in SeqsUpTo(DriverExplainability, 1), d \in SeqsUpTo(DriverDrift, 2) :
          evlogs = [f \in EvalLogs |->
                       CASE f = "bias" -> LogOf(b)
                         [] f = "control_evaluations" -> LogOf(c)
                         [] f = "explainability" -> LogOf(e)
                         [] f = "drift" -> LogOf(d)
                         [] OTHER -> [exists |-> FALSE, text |-> <<>>]]

SpecDrivers == InitDrivers /\ [][NextScore]_vars

\* a store whose explainability log holds a score of 25.00, 25.02, 25.03 or
\* 25.05: with bias 90, controls 100, drift 40 and operational 0 the totals
\* are 80, 79.996, 79.994 and 79.99
RoundingScores == {25 * Pt, 25 * Pt + 2, 25 * Pt + 3, 25 * Pt + 5}
RoundingExplainability ==
    {[model_id |-> m, timestamp |-> 1, explainability_score |-> x] : m \in Ids, x \in RoundingScores}

InitRounding ==
    /\ InitProcs
    /\ InitModels(OneCollections)
    /\ logf = [exists |-> FALSE, text |-> <<>>]
    /\ \E b \in SeqsUpTo(FewBias, 1), c \in SeqsUpTo(FewControls, 1),
          e \in SeqsUpTo(RoundingExplainability, 1), d \in SeqsUpTo(DriftEvents, 1) :
          evlogs = [f \in EvalLogs |->
                       CASE f = "bias" -> LogOf(b)
                         [] f = "control_evaluations" -> LogOf(c)
                         [] f = "explainability" -> LogOf(e)
                         [] f = "drift" -> LogOf(d)
                         [] OTHER -> [exists |-> FALSE, text |-> <<>>]]

SpecRounding == InitRounding /\ [][NextScore]_vars

(* ------------------------------- claims ------------------------------- *)
Mutating(p) == InCreate(p) \/ op[p].name \in {"update_by_id", "delete_by_id"}
Reading(p) == op[p].name \in {"load_json", "find_by_id", "exists"}
Range(q) == {q[i] : i \in DOMAIN q}
PreRecords(p) == ParseArray(pre[p].text)
PreLines(p) == ParseLines(pre[p].text)

\* the shortest of the texts the calls started on: what the file held before
\* the first of them
FirstText == pre[CHOOSE p \in Procs : \A q \in Procs : Len(pre[p].text) <= Len(pre[q].text)].text

\* C1: when each process has done one create, with identifiers that differ
\* from each other and from those the file held, the file holds every
\* original record and every created one, k + N records in all.
C1_NoLostCreate ==
    (/\ ncalls = NProcs
     /\ \A p \in Procs : pc[p] = "done" /\ op[p].name = "create"
     /\ \A p, q \in Procs : p # q => op[p].record[IdField] # op[q].record[IdField]
     /\ \A p \in Procs : ~exists(ParseArray(FirstText), IdField, op[p].record[IdField]))
    => /\ Len(FileRecords) = Len(ParseArray(FirstText)) + NProcs
       /\ Range(ParseArray(FirstText)) \subseteq Range(FileRecords)
       /\ \A p \in Procs : op[p].record \in Range(FileRecords)

\* C2: no mutating call has loaded the file while another mutating call is
\* between its own load and its save.
InCycle(p) == Mutating(p) /\ pc[p] \in {"loaded", "save", "save_write", "save_replace"}
C2_MutationsSerialized == \A p, q \in Procs : p # q => ~(InCycle(p) /\ InCycle(q))

\* C3: a load, find_by_id or exists of a collection file that exists ends
\* with the whole collection the file held when the call started or with a
\* whole collection a save has installed since, never with a part of one.
C3_ReadIsPriorOrNew ==
    \A p \in Procs :
        (/\ Reading(p)
         /\ pc[p] \in {"loaded", "done"}
         /\ ~lazy
         /\ pre[p].exists
         /\ IsArrayText(pre[p].text))
        => data[p] \in {PreRecords(p)} \cup saved[p]

C3_Witness ==
    \E p \in Procs :
        /\ Reading(p)
        /\ pc[p] = "loaded"
        /\ ~lazy
        /\ pre[p].exists
        /\ saved[p] # {}
        /\ data[p] = PreRecords(p)
        /\ data[p] # <<>>
        /\ FileRecords # data[p]

\* C4: no step of save_json before the rename, and no crash during it,
\* changes the collection file; the rename leaves it holding exactly the
\* text of the collection being saved.
SaveStep(p) ==
    /\ pc[p] \in {"save", "save_write", "save_replace"}
    /\ <<pc[p], buf[p], h[p]>>' # <<pc[p], buf[p], h[p]>>
Renamed(p) == pc[p] = "save_replace" /\ pc'[p] # "crashed"
C4_SaveStepSafe(p) ==
    SaveStep(p) =>
        IF Renamed(p)
        THEN FileState' = [exists |-> TRUE, text |-> Serialize(data[p])]
        ELSE FileState' = FileState
C4_SaveCrashSafe == [][\A p \in Procs : C4_SaveStepSafe(p)]_vars

C4_Witness ==
    \E p \in Procs :
        /\ pc[p] = "crashed"
        /\ Mutating(p)
        /\ buf[p] # <<>>
        /\ Len(buf[p]) < Len(Serialize(data[p]))
        /\ FileState = pre[p]
        /\ FileRecords # <<>>
        /\ FileRecords # data[p]

\* C5: when delete_record has crashed, and no other call has run, the log
\* holds all the records it held before the call or exactly the kept ones.
C5_DeleteCrashSafe ==
    \A p \in Procs :
        (pc[p] = "crashed" /\ op[p].name = "delete_record" /\ ncalls = 1)
        => \/ ParseLines(logf.text) = PreLines(p)
           \/ ParseLines(logf.text) = records_to_keep(PreLines(p), op[p].filters)

\* C6: when an append of a record that does not match the filter and a
\* delete_record have both returned, the appended record is in the log.
C6_AppendSurvivesDelete ==
    \A p, q \in Procs :
        (/\ pc[p] = "done" /\ op[p].name = "append"
         /\ pc[q] = "done" /\ op[q].name = "delete_record"
         /\ ~MatchesAll(op[p].record, op[q].filters))
        => op[p].record \in Range(ParseLines(logf.text))

\* C7: every step of an append, and a crash right after it has returned,
\* leaves what the log held as the beginning of what it holds.
AppendStep(p) == InAppend(p) /\ <<pc[p], buf[p]>>' # <<pc[p], buf[p]>>
C7_AppendKeepsLines ==
    [][\A p \in Procs : AppendStep(p) => (IsPrefix(logf.text, logf'.text) /\ (logf.exists => logf'.exists))]_vars

C7_Witness ==
    \E p \in Procs :
        /\ pc[p] = "crashed"
        /\ op[p].name = "append"
        /\ ret[p] = RetNone
        /\ pre[p].text # <<>>
        /\ logf.text = pre[p].text \o Line(op[p].record)

\* C8: with appenders only, the log is whole lines at every moment, and once
\* each process has appended one record it is the text the first append
\* found followed by the appended records' lines, each once, in some order.
WholeLines(text) ==
    /\ Len(text) % Len(Line(EmptyDict)) = 0
    /\ \A i \in 1..Len(text) :
          i % Len(Line(EmptyDict)) = 1 =>
              /\ text[i].t = "{"
              /\ SubSeq(text, i, i + Len(Line(EmptyDict)) - 1) = Line(text[i].r)
Orders == {f \in [Procs -> Procs] : \A i, j \in Procs : i # j => f[i] # f[j]}
C8_AppendsWhole ==
    /\ WholeLines(logf.text)
    /\ (ncalls = NProcs /\ \A p \in Procs : pc[p] = "done" /\ op[p].name = "append")
       => \E f \in Orders : logf.text = FirstText \o Lines([i \in Procs |-> op[f[i]].record])

C8_Witness ==
    /\ ncalls = NProcs
    /\ \A p \in Procs : pc[p] = "done" /\ op[p].name = "append" /\ pre[p].text = FirstText
    /\ \A p, q \in Procs : p # q => op[p].record # op[q].record
    /\ FirstText # <<>>

\* C9: no two records of the collection file have the same identifier.
C9_IdsUnique == UniqueIds(FileRecords)

\* C10: a create of a record whose identifier the collection already holds
\* fails with Conflict and leaves the file as it was.
C10_CreateConflict ==
    \A p \in Procs :
        (/\ pc[p] = "done"
         /\ op[p].name = "create"
         /\ ncalls = 1
         /\ exists(PreRecords(p), IdField, op[p].record[IdField]))
        => /\ ret[p].kind = "Conflict"
           /\ FileState = pre[p]

\* the step at which a call returns to a caller that makes one call at a
\* time: the file is then as the call leaves it
Returns(p) == pc[p] # "done" /\ pc'[p] = "done"
Without(d, i) == SubSeq(d, 1, i - 1) \o SubSeq(d, i + 1, Len(d))

\* C11: an update_by_id of an identifier that no record of the collection has
\* returns False, its not-found result, and leaves the collection as it was:
\* the same records, and the same text in a file that existed before the call.
C11_UpdateAbsent ==
    [][\A p \in Procs :
        (/\ Returns(p)
         /\ op[p].name = "update_by_id"
         /\ ~exists(PreRecords(p), IdField, op[p].id_value))
        => /\ ret'[p] = RetBool(FALSE)
           /\ FileRecords' = PreRecords(p)
           /\ pre[p].exists => FileState' = pre[p]]_vars

C11_Witness ==
    \E p \in Procs :
        /\ pc[p] = "done"
        /\ op[p].name = "update_by_id"
        /\ DOMAIN op[p].updates # {}
        /\ ret[p] = RetBool(FALSE)
        /\ PreRecords(p) # <<>>
        /\ FileState = pre[p]

\* C12: an update_by_id with no attributes to update reports a failure, not
\* success, and saves nothing, whether or not a record matches.
C12_EmptyUpdateNoOp ==
    \A p \in Procs :
        (/\ pc[p] = "done"
         /\ op[p].name = "update_by_id"
         /\ DOMAIN op[p].updates = {})
        => /\ ret[p] # RetBool(TRUE)
           /\ saved[p] = {}

\* C13: when update_by_id returns True, the first record having the
\* identifier has every attribute of the updates at the given value and its
\* other attributes as they were, and the collection has the same number of
\* records, all the others unchanged and in their places.
C13_UpdateFrame ==
    [][\A p \in Procs :
        (/\ Returns(p)
         /\ op[p].name = "update_by_id"
         /\ ret'[p] = RetBool(TRUE))
        => LET old == PreRecords(p)
               new == FileRecords'
               i == find_index(old, IdField, op[p].id_value)
               u == op[p].updates
           IN /\ i # 0
              /\ Len(new) = Len(old)
              /\ \A j \in 1..Len(old) : j # i => new[j] = old[j]
              /\ DOMAIN new[i] = (DOMAIN old[i]) \cup (DOMAIN u)
              /\ \A k \in DOMAIN u : new[i][k] = u[k]
              /\ \A k \in (DOMAIN old[i]) \ (DOMAIN u) : new[i][k] = old[i][k]]_vars

C13_Witness ==
    \E p \in Procs :
        /\ pc[p] = "done"
        /\ op[p].name = "update_by_id"
        /\ ret[p] = RetBool(TRUE)
        /\ FileRecords = data[p]
        /\ Len(FileRecords) = 2
        /\ find_index(PreRecords(p), IdField, op[p].id_value) = 2
        /\ FileRecords[2] # PreRecords(p)[2]
        /\ \E k \in DOMAIN FileRecords[2] : k \notin DOMAIN op[p].updates

\* C14: a delete_by_id of an identifier that a record of the collection has
\* returns True and leaves the collection with exactly one record fewer: one
\* record of that identifier removed, the others unchanged and in order.
C14_DeleteRemovesOne ==
    [][\A p \in Procs :
        (/\ Returns(p)
         /\ op[p].name = "delete_by_id"
         /\ exists(PreRecords(p), IdField, op[p].id_value))
        => /\ ret'[p] = RetBool(TRUE)
           /\ Len(FileRecords') = Len(PreRecords(p)) - 1
           /\ \E i \in 1..Len(PreRecords(p)) :
                 /\ Matches(PreRecords(p)[i], IdField, op[p].id_value)
                 /\ FileRecords' = Without(PreRecords(p), i)]_vars

\* C15: a delete_by_id of an identifier that no record of the collection has
\* returns False, saves nothing, and leaves the collection as it was: the
\* same records, and the same text in a file that existed before the call.
C15_DeleteAbsent ==
    [][\A p \in Procs :
        (/\ Returns(p)
         /\ op[p].name = "delete_by_id"
         /\ ~exists(PreRecords(p), IdField, op[p].id_value))
        => /\ ret'[p] = RetBool(FALSE)
           /\ saved'[p] = {}
           /\ FileRecords' = PreRecords(p)
           /\ pre[p].exists => FileState' = pre[p]]_vars

C15_Witness ==
    \E p \in Procs :
        /\ pc[p] = "done"
        /\ op[p].name = "delete_by_id"
        /\ ret[p] = RetBool(FALSE)
        /\ saved[p] = {}
        /\ PreRecords(p) # <<>>
        /\ FileState = pre[p]

\* C16: a find_by_id that returns while the file holds what a create of a
\* record with that identifier has saved returns that record; and every
\* find_by_id returns the first record of the file having the identifier,
\* None when there is none.
C16_CreateThenFind ==
    [][\A q \in Procs :
        (Returns(q) /\ op[q].name = "find_by_id")
        => /\ \A p \in Procs :
                 (/\ pc[p] = "done"
                  /\ op[p].name = "create"
                  /\ op[p].record[IdField] = op[q].id_value
                  /\ FileRecords = data[p])
                 => ret'[q] = RetRec(op[p].record)
           /\ LET first == {i \in 1..Len(FileRecords) :
                                /\ Matches(FileRecords[i], IdField, op[q].id_value)
                                /\ \A j \in 1..(i - 1) : ~Matches(FileRecords[j], IdField, op[q].id_value)}
              IN IF first = {} THEN ret'[q] = RetNone
                 ELSE \E i \in first : ret'[q] = RetRec(FileRecords[i])]_vars

\* C17: get_all_for_model returns exactly the records of the log that have
\* the model_id, each once, in descending order of the sort attribute, two
\* records of the same sort key in the order they have in the file.
C17_StableDescending ==
    \A p \in Procs :
        (pc[p] = "done" /\ op[p].name = "get_all_for_model")
        => LET recs == ParseLines(logf.text)
               M == {i \in 1..Len(recs) : Matches(recs[i], "model_id", op[p].model_id)}
               s == op[p].sort_by
           IN /\ ret[p].kind = "list"
              /\ Len(ret[p].l) = Cardinality(M)
              /\ \E f \in [1..Len(ret[p].l) -> M] :
                    /\ \A j \in 1..Len(ret[p].l) : ret[p].l[j] = recs[f[j]]
                    /\ \A j, k \in 1..Len(ret[p].l) :
                          j < k => \/ recs[f[j]][s] > recs[f[k]][s]
                                   \/ recs[f[j]][s] = recs[f[k]][s] /\ f[j] < f[k]

C17_Witness ==
    \E p \in Procs :
        /\ pc[p] = "done"
        /\ op[p].name = "get_all_for_model"
        /\ Len(ret[p].l) = 3
        /\ ret[p].l[1][op[p].sort_by] > ret[p].l[2][op[p].sort_by]
        /\ ret[p].l[2][op[p].sort_by] = ret[p].l[3][op[p].sort_by]
        /\ ret[p].l[2] # ret[p].l[3]
        /\ ParseLines(logf.text) = <<ret[p].l[2], ret[p].l[3], ret[p].l[1]>>

\* C18: a get_latest_for_model returns the first record of what a
\* get_all_for_model with the same model_id and sort attribute returns on
\* the same log, and None exactly when that list is empty.
C18_LatestIsFirst ==
    \A p, q \in Procs :
        (/\ pc[p] = "done" /\ op[p].name = "get_latest_for_model"
         /\ pc[q] = "done" /\ op[q].name = "get_all_for_model"
         /\ op[p].model_id = op[q].model_id
         /\ op[p].sort_by = op[q].sort_by
         /\ pre[p].text = pre[q].text)
        => ret[p] = IF ret[q].l = <<>> THEN RetNone ELSE RetRec(ret[q].l[1])

C18_Witness ==
    \E p, q \in Procs :
        /\ pc[p] = "done" /\ op[p].name = "get_latest_for_model"
        /\ pc[q] = "done" /\ op[q].name = "get_all_for_model"
        /\ op[p].model_id = op[q].model_id
        /\ op[p].sort_by = op[q].sort_by
        /\ Len(ret[q].l) = 3
        /\ ret[q].l[1][op[q].sort_by] = ret[q].l[2][op[q].sort_by]
        /\ ret[q].l[1] # ret[q].l[2]
        /\ ParseLines(logf.text) = <<ret[q].l[3], ret[q].l[1], ret[q].l[2]>>
        /\ ret[p] = RetRec(ret[q].l[1])

\* C19: when delete_record returns, the log holds the records it held that
\* do not have every attribute of the filter at the given value, unchanged
\* and in their order, and the call has returned the number of the others;
\* a count with the same filter on the log as the delete left it returns 0.
C19_DeleteByFilter ==
    [][\A p \in Procs :
        /\ (Returns(p) /\ op[p].name = "delete_record")
           => LET old == PreLines(p)
                  new == ParseLines(logf'.text)
                  M == {i \in 1..Len(old) :
                           \A k \in DOMAIN op[p].filters :
                               k \in DOMAIN old[i] /\ old[i][k] = op[p].filters[k]}
              IN /\ ret'[p] = RetInt(Cardinality(M))
                 /\ Len(new) = Len(old) - Cardinality(M)
                 /\ \E f \in [1..Len(new) -> (1..Len(old)) \ M] :
                       /\ \A j \in 1..Len(new) : new[j] = old[f[j]]
                       /\ \A j, k \in 1..Len(new) : j < k => f[j] < f[k]
        /\ (Returns(p) /\ op[p].name = "count")
           => \A q \in Procs :
                 (/\ pc[q] = "done"
                  /\ op[q].name = "delete_record"
                  /\ op[q].filters = op[p].filters
                  /\ logf.text = Lines(data[q]))
                 => ret'[p] = RetInt(0)]_vars

C19_Witness ==
    \E p, q \in Procs :
        /\ pc[q] = "done" /\ op[q].name = "delete_record"
        /\ pc[p] = "done" /\ op[p].name = "count"
        /\ op[q].filters = op[p].filters
        /\ Len(PreLines(q)) = 3
        /\ ret[q] = RetInt(2)
        /\ data[q] = <<PreLines(q)[2]>>
        /\ logf.text = Lines(data[q])
        /\ pre[p].text = logf.text
        /\ ret[p] = RetInt(0)

\* C20: with appends and reads only, what a read_all returns begins with
\* what every read_all that returned before it has returned: the records
\* read before, unchanged and in their places.
C20_ReadsGrow ==
    [][\A q \in Procs :
        (Returns(q) /\ op[q].name = "read_all")
        => \A p \in Procs \ {q} :
              (op[p].name = "read_all" /\ ret[p].kind = "list")
              => IsPrefix(ret[p].l, ret'[q].l)]_vars

C20_Witness ==
    \E p, q \in Procs :
        /\ pc[p] = "done" /\ op[p].name = "read_all"
        /\ pc[q] = "done" /\ op[q].name = "read_all"
        /\ ret[p].l # <<>>
        /\ Len(ret[p].l) < Len(ret[q].l)
        /\ IsPrefix(ret[p].l, ret[q].l)

\* the places of a text where a line starts, and those where the line is
\* the whole text of one record
StartsLine(text, i) == i = 1 \/ text[i - 1] = NL
EndsLine(text, i) == i > Len(text) \/ text[i] = NL
WholeRecordAt(text, i) ==
    /\ StartsLine(text, i)
    /\ i + 1 <= Len(text)
    /\ text[i].t = "{"
    /\ text[i + 1].t = "}"
    /\ text[i].r = text[i + 1].r
    /\ EndsLine(text, i + 2)
WholeRecords(text) ==
    LET at == SelectSeq([i \in 1..Len(text) |-> i], LAMBDA i : WholeRecordAt(text, i))
    IN [k \in 1..Len(at) |-> text[at[k]].r]

\* C21: read_all returns a list, never an error: the records of the lines
\* that are the whole text of one record, in file order, whatever the
\* other lines of the file hold.
C21_SkipsMalformed ==
    [][\A p \in Procs :
        (Returns(p) /\ op[p].name = "read_all") =>
            ret'[p] = RetList(WholeRecords(logf.text))]_vars

\* read_all has returned the two records around a line that does not parse
C21_Witness ==
    \E p \in Procs :
        /\ pc[p] = "done"
        /\ op[p].name = "read_all"
        /\ ret[p].kind = "list"
        /\ Len(ret[p].l) = 2
        /\ \E r \in LineRecords, q \in LineRecords :
              /\ r # q
              /\ logf.text = <<ObjL(r), ObjR(r), NL, ObjL(q), NL, ObjL(q), ObjR(q), NL>>
              /\ ret[p].l = <<r, q>>

\* the collections whose text, as save_json writes it, is the given text
StoredAs(text) == {d \in SeqsUpTo(DocRecords, MaxText) : Serialize(d) = text}

\* C22: load_json returns a list, never an error: the stored records in
\* stored order when the file holds the text of an array of records, and
\* the empty list when the file is absent or holds any other text.
C22_LoadTolerant ==
    [][\A p \in Procs :
        (Returns(p) /\ op[p].name = "load_json") =>
            /\ ret'[p].kind = "list"
            /\ \A d \in StoredAs(pre[p].text) : pre[p].exists => ret'[p].l = d
            /\ (~pre[p].exists \/ StoredAs(pre[p].text) = {}) => ret'[p].l = <<>>]_vars

\* load_json has returned the empty list from a file that holds one record
\* and no array around it
C22_Witness ==
    \E p \in Procs :
        /\ pc[p] = "done"
        /\ op[p].name = "load_json"
        /\ pre[p].exists
        /\ \E r \in DocRecords : pre[p].text = <<RecTok(r)>>
        /\ ret[p] = RetList(<<>>)

\* the records of a list that lack an attribute, in the list's order
Lacking(recs, k) == SelectSeq(recs, LAMBDA r : k \notin DOMAIN r)

\* C23: in what get_all_for_model returns, no record lacking the sort
\* attribute stands before a record having it, and the records lacking it
\* are those of the model in the file, in file order; get_latest_for_model
\* returns a record lacking it only when no record of the model has it, and
\* then the first of them in file order.
C23_MissingKeyLast ==
    [][\A p \in Procs :
        LET of_model == filter_records(PreLines(p), [model_id |-> op[p].model_id])
            k == op[p].sort_by
        IN /\ (Returns(p) /\ op[p].name = "get_all_for_model") =>
                 LET res == ret'[p].l
                 IN /\ \A i, j \in 1..Len(res) :
                          (i < j /\ k \in DOMAIN res[j]) => k \in DOMAIN res[i]
                    /\ Lacking(res, k) = Lacking(of_model, k)
           /\ (Returns(p) /\ op[p].name = "get_latest_for_model" /\ of_model # <<>>) =>
                 /\ ret'[p].kind = "record"
                 /\ k \notin DOMAIN ret'[p].r =>
                       /\ Lacking(of_model, k) = of_model
                       /\ ret'[p].r = of_model[1]]_vars

\* get_all_for_model has returned a record having the timestamp before the
\* two lacking it that stand around it in the file
C23_Witness ==
    \E p \in Procs :
        /\ pc[p] = "done"
        /\ op[p].name = "get_all_for_model"
        /\ op[p].sort_by = "timestamp"
        /\ ret[p].kind = "list"
        /\ PreLines(p) = ParseLines(logf.text)
        /\ Len(PreLines(p)) = 3
        /\ "timestamp" \notin DOMAIN PreLines(p)[1]
        /\ "timestamp" \in DOMAIN PreLines(p)[2]
        /\ "timestamp" \notin DOMAIN PreLines(p)[3]
        /\ PreLines(p)[1] # PreLines(p)[3]
        /\ ret[p].l = <<PreLines(p)[2], PreLines(p)[1], PreLines(p)[3]>>

Scoring(p) == op[p].name = "calculate_risk_score"
HasModel(d, m) == \E i \in 1..Len(d) : "model_id" \in DOMAIN d[i] /\ d[i].model_id = m
\* the events of a model in a log, in file order
EventsOf(log, m) == SelectSeq(ParseLines(log.text), LAMBDA r : "model_id" \in DOMAIN r /\ r.model_id = m)

\* C24: when calculate_risk_score returns, an assessment or None, the models
\* collection holds the records it held when the call started, each of the
\* control-evaluation, bias, explainability and drift logs holds the text it
\* held, and the risk-assessment log is as it was: nothing has been
\* appended to it.
C24_ScoreReadsOnly ==
    [][\A p \in Procs :
        (Returns(p) /\ Scoring(p)) =>
            /\ FileRecords' = PreRecords(p)
            /\ pre[p].exists => FileState' = [exists |-> pre[p].exists, text |-> pre[p].text]
            /\ \A f \in EvalLogs : evlogs'[f].text = pre[p].logs[f].text
            /\ evlogs'["risk_assessments"] = pre[p].logs["risk_assessments"]]_vars

\* an assessment has been returned from a store whose logs held events of
\* the model and still hold them
C24_Witness ==
    \E p \in Procs :
        /\ pc[p] = "done"
        /\ Scoring(p)
        /\ ret[p].kind = "RiskAssessment"
        /\ \A i \in 1..Len(ScoreLogs) :
              /\ EventsOf(evlogs[ScoreLogs[i]], op[p].model_id) # <<>>
              /\ evlogs[ScoreLogs[i]] = pre[p].logs[ScoreLogs[i]]
        /\ ~evlogs["risk_assessments"].exists

\* C25: calculate_risk_score returns None exactly when no record of the
\* models collection has the model_id asked for, whatever events the logs
\* hold for it.
C25_NotFoundIffAbsent ==
    [][\A p \in Procs :
        (Returns(p) /\ Scoring(p)) =>
            (ret'[p] = RetNone <=> ~HasModel(PreRecords(p), op[p].model_id))]_vars

\* None has been returned for a model_id that the collection, which holds
\* another model, has not, while every log holds an event of it
C25_Witness ==
    \E p \in Procs :
        /\ pc[p] = "done"
        /\ Scoring(p)
        /\ ret[p] = RetNone
        /\ PreRecords(p) # <<>>
        /\ \A i \in 1..Len(ScoreLogs) : EventsOf(evlogs[ScoreLogs[i]], op[p].model_id) # <<>>

\* the total of the call that p is in, as a numerator over a denominator:
\* (40 bias + 25 controls + 20 explainability + 10 drift + 5 operational) / 100
TotalDen(p) ==
    LET c == Components(data[p].model, data[p].evals)
    IN 100 * c.control.den * c.explainability.den
TotalNum(p) ==
    LET c == Components(data[p].model, data[p].evals)
        D == c.control.den * c.explainability.den
    IN 40 * c.bias.num * D + 25 * c.control.num * c.explainability.den
       + 20 * c.explainability.num * c.control.den
       + 10 * c.drift.num * D + 5 * c.operational.num * D
Assessed(p) == pc[p] = "done" /\ Scoring(p) /\ ret[p].kind = "RiskAssessment"

\* C26: the level of a returned assessment is critical when the total is 80
\* or more, high when it is 60 or more and below 80, medium when it is 30 or
\* more and below 60, and low when it is below 30.
C26_LevelCutoffs ==
    \A p \in Procs :
        Assessed(p) =>
            /\ ret[p].risk_level = "critical" <=> TotalNum(p) >= 80 * TotalDen(p)
            /\ ret[p].risk_level = "high" <=> (TotalNum(p) >= 60 * TotalDen(p) /\ TotalNum(p) < 80 * TotalDen(p))
            /\ ret[p].risk_level = "medium" <=> (TotalNum(p) >= 30 * TotalDen(p) /\ TotalNum(p) < 60 * TotalDen(p))
            /\ ret[p].risk_level = "low" <=> TotalNum(p) < 30 * TotalDen(p)

\* a total of exactly 80 has been assessed as critical
C26_Witness ==
    \E p \in Procs :
        /\ Assessed(p)
        /\ TotalNum(p) = 80 * TotalDen(p)
        /\ ret[p].risk_score = 80 * Pt
        /\ ret[p].risk_level = "critical"

\* C27: the risk_score of a returned assessment is the weighted sum of the
\* five components at the hundredth nearest to it; for a model in "dev"
\* with 2 jurisdictions, use case "Marketing" and 1 external data source
\* that has no event in any log, the components are 30, 60, 40, 20 and 0,
\* the score is 37.00 and the level is medium.
C27_WeightedSum ==
    \A p \in Procs :
        Assessed(p) =>
            /\ 2 * (ret[p].risk_score * TotalDen(p) - Pt * TotalNum(p)) <= TotalDen(p)
            /\ 2 * (Pt * TotalNum(p) - ret[p].risk_score * TotalDen(p)) <= TotalDen(p)
            /\ (/\ \A i \in 1..Len(ScoreLogs) : data[p].evals[i] = <<>>
                /\ data[p].model.deployment_environment = "dev"
                /\ Len(data[p].model.jurisdictions) = 2
                /\ data[p].model.use_case_category = "Marketing"
                /\ Len(data[p].model.external_data_sources) = 1)
               => /\ Components(data[p].model, data[p].evals) =
                        [bias |-> Whole(30), control |-> Whole(60), explainability |-> Whole(40),
                         drift |-> Whole(20), operational |-> Whole(0)]
                  /\ ret[p].risk_score = 37 * Pt
                  /\ ret[p].risk_level = "medium"

\* the model of the example has been assessed from logs that hold events of
\* another model only
C27_Witness ==
    \E p \in Procs :
        /\ Assessed(p)
        /\ \A i \in 1..Len(ScoreLogs) :
              /\ data[p].evals[i] = <<>>
              /\ ParseLines(evlogs[ScoreLogs[i]].text) # <<>>
        /\ data[p].model.deployment_environment = "dev"
        /\ data[p].model.use_case_category = "Marketing"
        /\ ret[p].risk_score = 37 * Pt

InRange(x) == x.num >= 0 /\ x.num <= 100 * x.den
\* the call of p has computed the scores of a model it found
Scored(p) == pc[p] = "done" /\ Scoring(p) /\ ret[p] # RetNone

\* C28: whatever the logs hold, each of the five component scores is
\* between 0 and 100, and the call returns an assessment whose risk_score is
\* between 0 and 100.
C28_ScoresInRange ==
    \A p \in Procs :
        Scored(p) =>
            /\ \A k \in DOMAIN Components(data[p].model, data[p].evals) :
                  InRange(Components(data[p].model, data[p].evals)[k])
            /\ ret[p].kind = "RiskAssessment"
            /\ ret[p].risk_score >= 0
            /\ ret[p].risk_score <= 100 * Pt

\* the place in a list of events of the latest one: the first of those
\* whose timestamp no other exceeds
IsLatest(evs, i) ==
    /\ \A j \in 1..Len(evs) : evs[j].timestamp <= evs[i].timestamp
    /\ \A j \in 1..(i - 1) : evs[j].timestamp < evs[i].timestamp

\* the points the rules give to an event, each rule with the conditions
\* under which it is the first to match
BiasPoints(e, n) ==
    /\ n = 90 <=> e.status = "unacceptable"
    /\ n = 80 <=> (e.status # "unacceptable" /\ e.regulatory_concern_flag)
    /\ n = 70 <=> (e.status # "unacceptable" /\ ~e.regulatory_concern_flag /\ e.customer_harm_risk = "high")
    /\ n = 50 <=> (e.status = "needs_review" /\ ~e.regulatory_concern_flag /\ e.customer_harm_risk # "high")
    /\ n = 30 <=> (e.status = "acceptable" /\ ~e.regulatory_concern_flag /\ e.customer_harm_risk = "medium")
    /\ n = 10 <=> (e.status = "acceptable" /\ ~e.regulatory_concern_flag /\ e.customer_harm_risk = "low")

\* C29: the bias component is 30 for a model with no bias event; otherwise
\* it is what the rules give to the latest bias event of the model, whatever
\* the older ones are: 90 for status unacceptable, else 80 for a regulatory
\* concern, else 70 for harm risk high, else 50 for status needs_review,
\* else 30 for harm risk medium, else 10.
C29_BiasFromLatest ==
    \A p \in Procs :
        Scored(p) =>
            LET evs == EventsOf(evlogs["bias"], op[p].model_id)
                bias == Components(data[p].model, data[p].evals).bias
            IN /\ bias.den = 1
               /\ evs = <<>> => bias.num = 30
               /\ \A i \in 1..Len(evs) : IsLatest(evs, i) => BiasPoints(evs[i], bias.num)

\* a model whose older bias event is unacceptable and whose latest one,
\* an acceptable one with a regulatory concern, comes first in the file has
\* a bias component of 80
C29_Witness ==
    \E p \in Procs :
        /\ Scored(p)
        /\ LET evs == EventsOf(evlogs["bias"], op[p].model_id)
           IN /\ Len(evs) = 2
              /\ evs[1].timestamp > evs[2].timestamp
              /\ evs[2].status = "unacceptable"
              /\ evs[1].status = "acceptable"
              /\ evs[1].regulatory_concern_flag
        /\ Components(data[p].model, data[p].evals).bias = Whole(80)

\* the number of events of a list that have a status
NumberOf(evs, status) == Cardinality({i \in 1..Len(evs) : evs[i].status = status})

\* C30: the controls component is 60 for a model with no control
\* evaluation; otherwise it is (failed + needs_review / 2) / all * 100, at
\* most 100, counted over every evaluation of the model in the log, those
\* of a control evaluated more than once included.
C30_ControlsFromAll ==
    \A p \in Procs :
        Scored(p) =>
            LET evs == EventsOf(evlogs["control_evaluations"], op[p].model_id)
                control == Components(data[p].model, data[p].evals).control
            IN /\ evs = <<>> => control = Whole(60)
               /\ evs # <<>> =>
                     /\ control.den > 0
                     /\ control.num * 2 * Len(evs) =
                            control.den * 100 * (2 * NumberOf(evs, "failed") + NumberOf(evs, "needs_review"))
                     /\ control.num <= 100 * control.den

\* a model with three evaluations, of which two are of the same control,
\* one failed and one passed, and the third needs review, has a controls
\* component of 50
C30_Witness ==
    \E p \in Procs :
        /\ Scored(p)
        /\ LET evs == EventsOf(evlogs["control_evaluations"], op[p].model_id)
           IN /\ Len(evs) = 3
              /\ evs[1].control_id = evs[2].control_id
              /\ evs[1].status = "failed"
              /\ evs[2].status = "passed"
              /\ evs[3].status = "needs_review"
        /\ LET control == Components(data[p].model, data[p].evals).control
           IN control.num = 50 * control.den

\* what the environment, the number of jurisdictions, the use case and the
\* number of external data sources of a model add
ProdPoints(m) == IF m.deployment_environment = "prod" THEN 30 ELSE 0
JurisdictionPoints(m) == 15 * Cardinality({t \in {5, 10} : Len(m.jurisdictions) > t})
UseCasePoints(m) == IF m.use_case_category \in {"Pricing", "Underwriting", "Claims"} THEN 20 ELSE 0
SourcePoints(m) == IF Len(m.external_data_sources) > 2 THEN 20 ELSE 0

\* C31: the operational component of a model is 0 plus 30 for environment
\* "prod", plus 30 for more than 10 jurisdictions or else 15 for more than 5
\* (exactly 5 adds 0, exactly 10 adds 15), plus 20 for use case Pricing,
\* Underwriting or Claims, plus 20 for more than 2 external data sources; it
\* is at most 100, and it is that sum whatever the event logs hold.
C31_OperationalScore ==
    \A p \in Procs :
        Scored(p) =>
            LET operational == Components(data[p].model, data[p].evals).operational
            IN \A i \in 1..Len(FileRecords) :
                  FileRecords[i].model_id = op[p].model_id =>
                     LET m == FileRecords[i]
                     IN /\ operational = Whole(ProdPoints(m) + JurisdictionPoints(m) + UseCasePoints(m) + SourcePoints(m))
                        /\ operational.num <= 100
                        /\ Len(m.jurisdictions) = 5 => JurisdictionPoints(m) = 0
                        /\ Len(m.jurisdictions) = 10 => JurisdictionPoints(m) = 15

\* a model in "prod", in exactly 10 jurisdictions, for Claims, with 3
\* external data sources, whose drift log holds a breach, has an
\* operational component of 85
C31_Witness ==
    \E p \in Procs :
        /\ Scored(p)
        /\ data[p].model.deployment_environment = "prod"
        /\ Len(data[p].model.jurisdictions) = 10
        /\ data[p].model.use_case_category = "Claims"
        /\ Len(data[p].model.external_data_sources) = 3
        /\ \E e \in Range(EventsOf(evlogs["drift"], op[p].model_id)) : e.status = "breached"
        /\ Components(data[p].model, data[p].evals).operational = Whole(85)

\* the components with a driver, in the order of the drivers, with the
\* threshold and the string of each
DriverOrder == <<"bias", "control", "explainability", "drift", "operational">>
Threshold == [bias |-> 70, control |-> 60, explainability |-> 50, drift |-> 70, operational |-> 50]
DriverString ==
    [bias |-> "Unfair discrimination concerns",
     control |-> "Failed mandatory controls",
     explainability |-> "Low explainability for customer-facing decisions",
     drift |-> "Model drift threshold breaches",
     operational |-> "High-risk operational deployment"]
Placeholder == "No significant risks identified"
Crossed(c) == {i \in 1..Len(DriverOrder) : c[DriverOrder[i]].num >= Threshold[DriverOrder[i]] * c[DriverOrder[i]].den}

\* C32: primary_risk_drivers of a returned assessment is never empty; it
\* holds the string of a component exactly when the component is at or
\* above its threshold (bias 70, controls 60, explainability 50, drift 70,
\* operational 50), the strings in that order and none twice; and it is the
\* placeholder alone exactly when no component is at or above its threshold.
C32_DriversListed ==
    \A p \in Procs :
        Assessed(p) =>
            LET drivers == ret[p].primary_risk_drivers
                crossed == Crossed(Components(data[p].model, data[p].evals))
            IN /\ drivers # <<>>
               /\ \A i \in 1..Len(DriverOrder) :
                     i \in crossed <=> \E j \in 1..Len(drivers) : drivers[j] = DriverString[DriverOrder[i]]
               /\ \A j \in 1..Len(drivers) :
                     \/ drivers[j] = Placeholder
                     \/ \E i \in 1..Len(DriverOrder) : drivers[j] = DriverString[DriverOrder[i]]
               /\ \A j, k \in 1..Len(drivers), i, l \in 1..Len(DriverOrder) :
                     (j < k /\ drivers[j] = DriverString[DriverOrder[i]] /\ drivers[k] = DriverString[DriverOrder[l]])
                        => i < l
               /\ crossed = {} <=> drivers = <<Placeholder>>
               /\ crossed # {} => \A j \in 1..Len(drivers) : drivers[j] # Placeholder

\* a model whose bias component is exactly 70, controls exactly 60,
\* explainability exactly 50, drift 80 and operational exactly 50 has been
\* assessed with the five strings
C32_Witness ==
    \E p \in Procs :
        /\ Assessed(p)
        /\ Components(data[p].model, data[p].evals) =
              [bias |-> Whole(70), control |-> Whole(60), explainability |-> Frac(50 * Pt, Pt),
               drift |-> Whole(80), operational |-> Whole(50)]
        /\ ret[p].primary_risk_drivers = [i \in 1..Len(DriverOrder) |-> DriverString[DriverOrder[i]]]

\* a step of a load_json, find_by_id or exists call of p, no process having
\* died
ReadStep(p) ==
    /\ Reading(p)
    /\ pc[p] \notin {"idle", "done"}
    /\ pc'[p] # pc[p]
    /\ \A q \in Procs : pc'[q] # "crashed"

\* C33: no step of a load_json, find_by_id or exists call changes the
\* records stored in the collection file, whatever a concurrent create or
\* save does in between, the first save of an absent file included.
C33_ReadsKeepRecords ==
    [][\A p \in Procs : ReadStep(p) => FileRecords' = FileRecords]_vars

\* C34: the level of a returned assessment is the one the cutoffs give to
\* its risk_score, the total rounded to two decimals: critical exactly when
\* risk_score >= 80.00, high when 60.00 <= risk_score < 80.00, medium when
\* 30.00 <= risk_score < 60.00, low when risk_score < 30.00.
C34_LevelMatchesScore ==
    \A p \in Procs :
        Assessed(p) =>
            /\ ret[p].risk_level = "critical" <=> ret[p].risk_score >= 80 * Pt
            /\ ret[p].risk_level = "high" <=> (ret[p].risk_score >= 60 * Pt /\ ret[p].risk_score < 80 * Pt)
            /\ ret[p].risk_level = "medium" <=> (ret[p].risk_score >= 30 * Pt /\ ret[p].risk_score < 60 * Pt)
            /\ ret[p].risk_level = "low" <=> ret[p].risk_score < 30 * Pt

\* C35: a delete_record with a filter of no attribute leaves the log in
\* place and empty and returns the number of records the log held, the
\* lines that are not a record not counted.
C35_EmptyFilterDeletesAll ==
    [][\A p \in Procs :
        (Returns(p) /\ op[p].name = "delete_record" /\ op[p].filters = EmptyDict) =>
            /\ logf'.exists
            /\ logf'.text = <<>>
            /\ ret'[p] = RetInt(Len(WholeRecords(pre[p].text)))]_vars

\* a delete_record of no attribute has returned 2 on a log of two records of
\* different models and has left it empty
C35_Witness ==
    \E p \in Procs :
        /\ pc[p] = "done"
        /\ op[p].name = "delete_record"
        /\ op[p].filters = EmptyDict
        /\ Len(WholeRecords(pre[p].text)) = 2
        /\ WholeRecords(pre[p].text)[1] # WholeRecords(pre[p].text)[2]
        /\ ret[p] = RetInt(2)
        /\ logf = [exists |-> TRUE, text |-> <<>>]

\* the records of a text that do not have every attribute of a filter at
\* the given value
KeptOf(text, filters) ==
    SelectSeq(WholeRecords(text), LAMBDA r : \E k \in DOMAIN filters : k \notin DOMAIN r \/ r[k] # filters[k])

\* C36: when delete_record returns, whatever it returns, the log holds the
\* lines of the records it held that do not match the filter, each on its
\* own line, and nothing else; the call has returned the number of records
\* that match, no line that is not a record counted; and a read_all of the
\* log as the call left it returns those records, as one made before the
\* call would have returned them among the others.
C36_RewriteDropsMalformed ==
    [][\A p \in Procs :
        /\ (Returns(p) /\ op[p].name = "delete_record") =>
              LET kept == KeptOf(pre[p].text, op[p].filters)
              IN /\ logf'.text = Lines(kept)
                 /\ \A i \in 1..Len(kept) : WholeRecordAt(logf'.text, 3 * i - 2)
                 /\ ret'[p] = RetInt(Len(WholeRecords(pre[p].text)) - Len(kept))
        /\ (Returns(p) /\ op[p].name = "read_all") =>
              \A q \in Procs :
                 (pc[q] = "done" /\ op[q].name = "delete_record" /\ logf.text = Lines(data[q]))
                 => ret'[p] = RetList(KeptOf(pre[q].text, op[q].filters))]_vars

\* a delete_record that matches no record has returned 0 on a log of a
\* record, a line that is the head of one and a second record, the log holds
\* the two records only, and a read_all made after it has returned them
C36_Witness ==
    \E p, q \in Procs :
        /\ pc[q] = "done" /\ op[q].name = "delete_record"
        /\ pc[p] = "done" /\ op[p].name = "read_all"
        /\ \E r \in LineRecords :
              /\ pre[q].text = <<ObjL(r), ObjR(r), NL, ObjL(r), NL, ObjL(r), ObjR(r), NL>>
              /\ op[q].filters # EmptyDict
              /\ ret[q] = RetInt(0)
              /\ logf.text = Lines(<<r, r>>)
              /\ pre[p].text = logf.text
              /\ ret[p] = RetList(<<r, r>>)

\* the records a text holds, and whether the text is that of their
\* collection as save_json writes it
RecordsIn(text) ==
    LET recs == SelectSeq(text, LAMBDA x : x.t = "rec")
    IN [i \in 1..Len(recs) |-> recs[i].r]
\* the call of p started on a file that exists and holds a text that is
\* not the text of a collection
OnUnparseable(p) == pre[p].exists /\ pre[p].text # Serialize(RecordsIn(pre[p].text))

\* C37: on a collection file that exists and does not parse as an array,
\* no step of an update_by_id or of a delete_by_id changes the file and
\* the call returns False; a create of a record returns the record and
\* leaves a file that holds the collection of that one record, nothing of
\* the text it held before.
C37_MutateUnparseable ==
    [][\A p \in Procs :
        /\ (OnUnparseable(p) /\ op[p].name \in {"update_by_id", "delete_by_id"}) =>
              /\ path' = path
              /\ inodes'[path'] = pre[p].text
              /\ Returns(p) => ret'[p] = RetBool(FALSE)
        /\ (OnUnparseable(p) /\ op[p].name = "create" /\ Returns(p)) =>
              /\ ret'[p] = RetRec(op[p].record)
              /\ path' # NoIno
              /\ inodes'[path'] = Serialize(<<op[p].record>>)]_vars

\* a create has returned on a file that held the head of an array with
\* another record in it, and the file holds the created record alone
C37_Witness ==
    \E p \in Procs :
        /\ pc[p] = "done"
        /\ op[p].name = "create"
        /\ \E q \in DocRecords :
              /\ q.id # op[p].record.id
              /\ pre[p] = [exists |-> TRUE, text |-> <<LB, RecTok(q)>>]
        /\ FileText = Serialize(<<op[p].record>>)
        /\ FileRecords = <<op[p].record>>

\* the request of p is one of the control catalog's routes
InControlRoute(p) == op[p].name \in ControlRoutes
\* the step that puts the audit entry of p's request into the audit log
AuditStep(p) == InControlRoute(p) /\ pc[p] = "a_write" /\ pc'[p] = "done"
\* the answer of a request that was rejected: duplicate identifier, unknown
\* control, update of no attribute
Rejected(r) == r.kind = "HTTPException" /\ r.code \in {400, 404, 409}

\* C38: in create_control, update_control and delete_control the audit
\* entry is appended only once the storage call of the request has
\* returned with its change made; and when a request is rejected, the
\* catalog holds the records it held when the request arrived and the audit
\* log holds the entries it held.
C38_AuditAfterMutation ==
    [][\A p \in Procs :
        /\ AuditStep(p) =>
              /\ ret[p] = IF op[p].name = "create_control" THEN RetRec(op[p].record) ELSE RetBool(TRUE)
              /\ ParseLines(logf'.text) = Append(ParseLines(logf.text), AuditEntry(p))
        /\ (InControlRoute(p) /\ Returns(p) /\ Rejected(ret'[p])) =>
              /\ FileRecords' = ParseArray(pre[p].text)
              /\ ParseLines(logf'.text) = ParseLines(pre[p].audit.text)]_vars

====
